---- MODULE Spec2Model ----
(***************************************************************************)
(* A model of pyrender's dynamic-geometry core: Primitive (primitive.py)   *)
(* with its staged updates (update_positions / update_topology), the       *)
(* owning thread's sync_gpu, and the OpenGL buffer objects it writes.      *)
(*                                                                         *)
(* Sizes are counted in elements; the code multiplies every size by the    *)
(* 4-byte element size (FLOAT_SZ, UINT_SZ) on both sides of every          *)
(* comparison GL makes, so the factor cancels.                             *)
(* CPython runs one bytecode at a time: every attribute read or write of   *)
(* a handler is atomic, and another thread may run between any two of      *)
(* them.  Steps of a handler that touch no attribute another thread        *)
(* writes are merged into the step of the preceding shared access.         *)
(***************************************************************************)
EXTENDS Integers, Sequences, FiniteSets, TLC

\* ------------------------------------------------------------------ bounds
MaxVerts == 2
MaxIdx == 2
MaxBytes == 2      \* byte size of a PersistentBuffer, of a set_data
MaxDeletes == 2    \* delete() calls made on one object

\* ------------------------------------------------------------------ values
\* Markers inside a GL data store (all real element values are >= 0).
Undef == 0 - 1
Garbage == 0 - 2

\* Python's None for an optional array.
None == [some |-> FALSE, arr |-> <<>>]
Some(a) == [some |-> TRUE, arr |-> a]

\* `_vertex_buffer_capacity = None`, `_index_buffer_capacity = None`.
NoneCap == -1

\* The size of a float in bytes.
FLOAT_SZ == 4

\* A pending flag: no such attribute yet (hasattr(...) is False), True, False.
Absent == "absent"
Set == "true"
Clear == "false"

\* The threads that call update_positions / update_topology.
Producers == {"p1"}

\* buffer_reserve_ratio as numerator/denominator; the constructor checks nothing.
Ratios == {<<1, 3>>, <<1, 1>>, <<3, 2>>, <<2, 1>>}

\* (n,3) position arrays: one per row count, and a second single-vertex one.
PosArr(n, t) == [i \in 1..n |-> <<t, i, 0>>]
PosArrays == {PosArr(n, 1) : n \in 0..MaxVerts} \cup {PosArr(1, 2)}

\* (n,3) normals.
NormArr(n) == [i \in 1..n |-> <<0, 0, 1>>]

\* Index arrays as the caller passes them: one per length.
IdxArr(m) == [i \in 1..m |-> i - 1]
IdxArrays == {IdxArr(m) : m \in 0..MaxIdx}

\* np.asanyarray(value, dtype=np.float32) on a non-negative integer: exact up
\* to 2^24, round-half-to-even on the even grid up to 2^25.
Float32(v) ==
    IF v <= 16777216 THEN v
    ELSE LET q == v \div 2
         IN  IF v % 2 = 0 THEN v
             ELSE IF q % 2 = 0 THEN 2 * q ELSE 2 * (q + 1)

AsFloat32(a) == [i \in 1..Len(a) |-> Float32(a[i])]

\* .astype(np.uint32) on integral floats in [0, 2^32): the same integer.
AsUint32(a) == [i \in 1..Len(a) |-> IF a[i] >= 0 THEN a[i] ELSE Garbage]

\* int(count * self._buffer_reserve_ratio): truncation of the product.
ReserveSize(count, r) == (count * r[1]) \div r[2]

\* math.ceil(count * ratio), what a ceiling would give (used by claims only).
CeilSize(count, r) == (count * r[1] + r[2] - 1) \div r[2]

\* `<` for `<=` in the capacity test.
FitsCapacityStrict(count, cap) == cap # NoneCap /\ count < cap

\* The branch condition of both _update_*_buffer methods.
FitsCapacity(count, cap) == cap # NoneCap /\ count <= cap

RECURSIVE FlattenRows(_)
FlattenRows(rows) ==
    IF rows = <<>> THEN <<>> ELSE Head(rows) \o FlattenRows(Tail(rows))

\* ---------------------------------------------------------------- OpenGL
Profiles == {"core", "compat"}

\* A buffer object: the size of its data store and the store itself.
NoStore == [alloc |-> 0, data |-> <<>>]

\* glGenBuffers(1): an unused name (the lowest one).
GlGenBuffer(g) == CHOOSE h \in 1..(Cardinality(DOMAIN g) + 1) : h \notin DOMAIN g

GlAddBuffer(g, h) == [x \in DOMAIN g \cup {h} |-> IF x = h THEN NoStore ELSE g[x]]

\* glBufferData(target, size, None, usage): a new store, contents undefined.
GlBufferData(g, h, n) ==
    [g EXCEPT ![h] = [alloc |-> n, data |-> [i \in 1..n |-> Undef]]]

\* glBufferSubData(target, 0, count, d) is GL_INVALID_VALUE, raised by PyOpenGL
\* as GLError, when the range leaves the store.
GlSubDataOk(g, h, count) == count <= g[h].alloc

\* The write itself: count elements read from d; past the end of d the
\* driver reads whatever follows it in memory.
GlBufferSubData(g, h, count, d) ==
    [g EXCEPT ![h].data =
        [i \in 1..Len(@) |->
            IF i <= count THEN (IF i <= Len(d) THEN d[i] ELSE Garbage) ELSE @[i]]]

\* The pose buffer: np.eye(4).flatten().
PoseData == [i \in 1..(4 * 4) |-> IF (i - 1) % 5 = 0 THEN 1 ELSE 0]

\* ------------------------------------------------------------------ state
VARIABLES
    positions,   \* self._positions
    normals,     \* self._normals
    indices,     \* self._indices
    needsV,      \* self._needs_vertex_update: Absent, Set or Clear
    needsI,      \* self._needs_index_update
    ratio,       \* self._buffer_reserve_ratio
    vaid,        \* self._vaid (0: None)
    buffers,     \* self._buffers
    elemId,      \* self._element_buffer_id (0: no such attribute)
    vcap,        \* self._vertex_buffer_capacity
    icap,        \* self._index_buffer_capacity
    gl,          \* the context's buffer objects
    opc,         \* where the owning thread is
    idata,       \* sync_gpu's local indices_data
    rd,          \* the values of self.indices sync_gpu has read so far
    ppc,         \* where each producer thread is
    bnds,        \* self._bounds, the cached bounding box
    bq,          \* the box a `bounds` query under way has computed and not
                 \* yet stored (<<>>: no query under way)
    bound,       \* _add_to_context has returned (it did not raise)
    deleted,     \* delete() has been called, and no _add_to_context since
    nonIdx,      \* the element buffer kept when the last completed index
                 \* sync found indices None (0: it found an index set, or
                 \* there was no such sync, or no element buffer)
    lastOp,      \* the owning thread's call that ended last, "none" once an
                 \* update call has started after it
    exc,         \* what that call raised ("none": it returned)
    vcount,      \* element count of the last write issued to the vertex buffer
    icount,      \* element count of the last write issued to the index buffer
    vkind,       \* how _update_vertex_buffer just wrote: "sub" or "realloc"
                 \* ("none" outside the call)
    vprev,       \* the staged positions a later update_positions replaced
                 \* before a sync took them (<<>>: none)
    iprev,       \* the same for the staged indices
    focus,       \* the object the calls are made on
    made,        \* how a second TransformFeedback's constructor ended: "ok",
                 \* "failed" (it raised), or "no" (it has not run yet)
    tf2,         \* that second TransformFeedback: _id, _buffers, _program
    mesh,        \* a mesh's primitives after its first, which is the
                 \* primitive above: of each, _indices, _bounds and
                 \* _needs_index_update
    routed,      \* flips at every call made through the mesh
    attr,        \* self._tangents, _texcoord_0, _texcoord_1, _color_0,
                 \* _joints_0, _weights_0: None or the shape of the array
    bufFlags,    \* self._buf_flags: not cached (None), or the mask
    mode,        \* self._mode (NoMode: the constructor has not set it)
    assigns,     \* attribute assignments made so far
    layout,      \* the glVertexAttribPointer calls _add_to_context made for
                 \* the vertex buffer, on the vertex array it created
    kernel,      \* a ComputeShader's _source and _work_groups
    pret,        \* what the call made last returned (<<>>: None)
    dsb,         \* a DirectStateBuffer: _id (0: None), _size
    pb,          \* a PersistentBuffer: _id, _size, _mapped_data, _array
    tf,          \* a TransformFeedback: _id, _buffers, _program
    cs,          \* a ComputeShader: _program_id, _ssbo_map
    dev,         \* the context's objects that these four create: buffer
                 \* objects, programs, transform feedback objects and the
                 \* indexed shader storage binding points
    pop,         \* the call made last on one of the four
    parg,        \* its arguments
    pexc,        \* what it raised ("none": it returned)
    twice,       \* a name was handed to a glDelete* call when not alive
    dels,        \* delete() calls made so far, per object
    redel        \* objects whose delete() ran on an already deleted object

cpu == <<positions, normals, indices, needsV, needsI, ratio>>
ctx == <<vaid, buffers, elemId, vcap, icap, gl>>
own == <<opc, idata, rd>>
res == <<lastOp, exc>>
ghost == <<bound, deleted, nonIdx, vcount, icount, vkind, vprev, iprev>>
box == <<bnds, bq>>
prim == <<cpu, ctx, own, res, ppc, ghost, box>>
who == <<focus, made, mesh, routed, kernel, tf2, attr, bufFlags, mode, assigns, layout>>
parts == <<who, dsb, pb, tf, cs, dev, pop, parg, pexc, pret, twice>>
turn == <<dels, redel>>
vars == <<prim, parts, turn>>

\* -------------------------------------------------------------- the objects
\* The classes whose objects the model follows.  Objects share no field:
\* a behaviour makes its calls on one object, whichever it is.
Components == {"Primitive", "DirectStateBuffer", "PersistentBuffer",
               "TransformFeedback", "ComputeShader"}

\* The compute kernels: the two of the unit tests, each doubling the floats
\* of the buffer at binding point 0, in place or into the buffer at binding
\* point 1, one element per work group; and how many groups are run.
MaxGroups == 2
Kernel(src, n) == [source |-> src, work_groups |-> n]
Kernels == {Kernel(src, n) : src \in {"in_place", "in_to_out"}, n \in 1..MaxGroups}

\* The primitive's other per-vertex attributes, each None or an array of
\* which the shape (rows, columns) is followed; the mask of buf_flags as
\* the set of the flags or-ed into it; the drawing modes of GLTF.
Attributes == {"tangents", "texcoord_0", "texcoord_1", "color_0", "joints_0", "weights_0"}
NoAttrs == [a \in Attributes |-> None]
Uncached == [cached |-> FALSE, mask |-> {}]
Cached(mask) == [cached |-> TRUE, mask |-> mask]
POINTS == 0
TRIANGLES == 4
TRIANGLE_FAN == 6
NoMode == -1

\* A primitive constructed with positions, normals and indices only, in the
\* default mode, and left at that.
PlainPrimitive ==
    attr = NoAttrs /\ bufFlags = Uncached /\ mode = TRIANGLES /\ assigns = 0

\* ------------------------------------------------------- the vertex data
\* The attributes that go into the vertex buffer after the positions and
\* the normals, in the order of the code; joints_0 and weights_0 do not.
Interleaved == <<"tangents", "texcoord_0", "texcoord_1", "color_0">>

\* The width the code gives each attribute in attr_sizes.
AttrSize(name) ==
    CASE name \in {"positions", "normals"} -> 3
      [] name \in {"tangents", "color_0"} -> 4
      [] name \in {"texcoord_0", "texcoord_1"} -> 2

\* Element (i, k) of an attribute's array: a value that names its place.
AttrElem(name, i, k) ==
    100 * (CHOOSE j \in 1..Len(Interleaved) : Interleaved[j] = name) + 10 * i + k

\* Row i of the attributes that are present, one after the other.
AttrRow(i) ==
    FlattenRows([j \in 1..Len(Interleaved) |->
        IF attr[Interleaved[j]].some
        THEN [k \in 1..attr[Interleaved[j]].arr[2] |-> AttrElem(Interleaved[j], i, k)]
        ELSE <<>>])

\* np.hstack((vertex_data, attr)) raises ValueError unless the row counts agree.
HstackOk(pos, nrm) ==
    /\ ~nrm.some \/ Len(nrm.arr) = Len(pos)
    /\ \A j \in 1..Len(Interleaved) :
          attr[Interleaved[j]].some => attr[Interleaved[j]].arr[1] = Len(pos)

\* The rebuilt vertex data without the normals.
VertexDataPositionsOnly(pos, nrm) ==
    FlattenRows([i \in 1..Len(pos) |-> pos[i] \o AttrRow(i)])

\* positions, then normals, tangents, texcoord_0, texcoord_1 and color_0
\* when present, row by row, flattened.
VertexData(pos, nrm) ==
    FlattenRows([i \in 1..Len(pos) |->
                    (IF nrm.some THEN pos[i] \o nrm.arr[i] ELSE pos[i]) \o AttrRow(i)])

\* attr_sizes: the names of the attributes that are present, in that order.
AttrSizes ==
    <<"positions">> \o (IF normals.some THEN <<"normals">> ELSE <<>>)
        \o SelectSeq(Interleaved, LAMBDA a : attr[a].some)

\* The glVertexAttribPointer calls of the loop over attr_sizes: location
\* i - 1 gets the width of the i-th entry, the stride FLOAT_SZ * total_sz
\* and the offset FLOAT_SZ * (the widths before it).
RECURSIVE WidthsBefore(_, _)
WidthsBefore(names, i) ==
    IF i <= 1 THEN 0 ELSE WidthsBefore(names, i - 1) + AttrSize(names[i - 1])

AttribPointers(names) ==
    [i \in 1..Len(names) |->
        [name |-> names[i], size |-> AttrSize(names[i]),
         stride |-> FLOAT_SZ * WidthsBefore(names, Len(names) + 1),
         offset |-> FLOAT_SZ * WidthsBefore(names, i)]]

\* DirectStateBuffer(), PersistentBuffer(size), TransformFeedback(varyings)
\* and ComputeShader(source) as their constructors leave them when nothing
\* fails, with the names GL hands out in that order.
PbSizes == 1..MaxBytes

PartsConstructed ==
    /\ dsb = [id |-> 1, size |-> 0]
    /\ \E size \in PbSizes :
          pb = [id |-> 2, size |-> size, mapped_data |-> TRUE,
                array |-> Some([i \in 1..size |-> Undef])]
    /\ tf = [id |-> 1, buffers |-> <<>>, program |-> 1]
    /\ cs = [program_id |-> 2, ssbo_map |-> <<>>]
    /\ dev = [bufs  |-> GlBufferData(GlAddBuffer(GlAddBuffer(<<>>, 1), 2),
                                     2, pb.size),
              progs |-> {1, 2},
              tfos  |-> {1},
              base  |-> <<>>,
              incoh |-> <<>>,
              used  |-> 0,
              xfb   |-> [bound |-> 0, active |-> FALSE],
              points |-> [t \in {0, 1} |-> <<>>]]
    /\ pop = "none" /\ parg = <<>> /\ pexc = "none" /\ pret = <<>>
    /\ twice = FALSE /\ routed = FALSE /\ layout = <<>>
    /\ made = "no" /\ tf2 = [id |-> 0, buffers |-> <<>>, program |-> 0]
    /\ kernel \in Kernels
    /\ dels = [c \in Components |-> 0] /\ redel = {}

\* The four as constructed and left alone: the calls are the primitive's.
PartsIdle ==
    /\ PartsConstructed /\ focus = "Primitive" /\ pb.size = 1
    /\ kernel = Kernel("in_place", 1) /\ mesh = <<>> /\ PlainPrimitive

\* Primitive.__init__: the attribute setters, then the GPU fields.
Constructed ==
    /\ positions \in PosArrays
    /\ normals \in {None, Some(NormArr(Len(positions)))}
    /\ indices \in {None} \cup {Some(AsFloat32(a)) : a \in IdxArrays}
    /\ ratio \in Ratios
    /\ needsV = Absent /\ needsI = Absent
    /\ vaid = 0 /\ buffers = <<>> /\ elemId = 0
    /\ vcap = NoneCap /\ icap = NoneCap
    /\ gl = <<>>
    /\ opc = "idle" /\ idata = <<>> /\ rd = <<>> /\ exc = "none"
    /\ lastOp = "none" /\ bound = FALSE /\ deleted = FALSE /\ nonIdx = 0
    /\ bnds = None /\ bq = <<>>
    /\ vcount = 0 /\ icount = 0 /\ vkind = "none"
    /\ vprev = <<>> /\ iprev = <<>>

Init == Constructed /\ PartsIdle /\ ppc = [p \in Producers |-> "idle"]

\* The position arrays the interleavings are explored with.
ThreadPositions == {PosArr(1, 1), PosArr(1, 2)}

\* For the interleavings: of the constructor's arguments, those the
\* interleavings do not depend on are fixed (no normals, a reserve ratio
\* that lets every write through).
InitThreads ==
    /\ Constructed
    /\ PartsIdle
    /\ positions \in ThreadPositions
    /\ ~normals.some
    /\ ratio \in {<<1, 1>>, <<2, 1>>}
    /\ ppc = [p \in Producers |-> "idle"]

\* ------------------------------------------------------- producer threads
\* update_positions(a), first the store of self._positions ...
\* (track: whether the history variable vprev is kept; it changes nothing else)
UpdatePositionsStore(p, a, track) ==
    /\ ppc[p] = "idle"
    /\ positions' = a
    /\ vprev' = (IF track /\ needsV = Set THEN <<positions>> ELSE <<>>)
    /\ ppc' = [ppc EXCEPT ![p] = "up_flag"]
    /\ lastOp' = "none" /\ exc' = "none"
    /\ bnds' = None
    /\ UNCHANGED <<parts, turn, bq, bound, deleted, nonIdx, normals, indices, needsV, needsI, ratio, ctx, own,
                   vcount, icount, vkind, iprev>>

\* The last statement of update_positions raising both flags.
UpdatePositionsFlagBoth(p) ==
    /\ ppc[p] = "up_flag"
    /\ needsV' = Set /\ needsI' = Set
    /\ ppc' = [ppc EXCEPT ![p] = "idle"]
    /\ UNCHANGED <<parts, turn, box, bound, deleted, nonIdx, positions, normals, indices, ratio, ctx, own, res,
                   vcount, icount, vkind, vprev, iprev>>

\* ... then self._needs_vertex_update = True.
UpdatePositionsFlag(p) ==
    /\ ppc[p] = "up_flag"
    /\ needsV' = Set
    /\ ppc' = [ppc EXCEPT ![p] = "idle"]
    /\ UNCHANGED <<parts, turn, box, positions, normals, indices, needsI, ratio, ctx, own, res, ghost>>

\* update_topology(i): the float32 conversion and the store of self._indices ...
UpdateTopologyStore(p, i, track) ==
    /\ ppc[p] = "idle"
    /\ indices' = (IF i.some THEN Some(AsFloat32(i.arr)) ELSE None)
    /\ iprev' = (IF track /\ needsI = Set THEN <<indices>> ELSE <<>>)
    /\ ppc' = [ppc EXCEPT ![p] = "ut_flag"]
    /\ lastOp' = "none" /\ exc' = "none"
    /\ bnds' = None
    /\ UNCHANGED <<parts, turn, bq, bound, deleted, nonIdx, positions, normals, needsV, needsI, ratio, ctx, own,
                   vcount, icount, vkind, vprev>>

\* ... then self._needs_index_update = True.
UpdateTopologyFlag(p) ==
    /\ ppc[p] = "ut_flag"
    /\ needsI' = Set
    /\ ppc' = [ppc EXCEPT ![p] = "idle"]
    /\ UNCHANGED <<parts, turn, box, positions, normals, indices, needsV, ratio, ctx, own, res, ghost>>

\* ------------------------------------------------------- the bounds query
\* _compute_bounds: the per-axis minimum and maximum of the positions.
ColMin(pos, k) ==
    CHOOSE v \in {pos[i][k] : i \in DOMAIN pos} :
        \A w \in {pos[i][k] : i \in DOMAIN pos} : v <= w
ColMax(pos, k) ==
    CHOOSE v \in {pos[i][k] : i \in DOMAIN pos} :
        \A w \in {pos[i][k] : i \in DOMAIN pos} : v >= w
ComputeBounds(pos) ==
    <<[k \in 1..3 |-> ColMin(pos, k)], [k \in 1..3 |-> ColMax(pos, k)]>>

\* The `bounds` property, up to the end of _compute_bounds: a cached box is
\* returned as it is, else the box of the positions is computed (np.min of
\* an empty array raises and nothing is stored).
BoundsCompute ==
    /\ bq = <<>>
    /\ bnds = None
    /\ positions # <<>>
    /\ bq' = <<ComputeBounds(positions)>>
    /\ UNCHANGED <<parts, turn, cpu, ctx, own, res, ppc, ghost, bnds>>

\* ... and the store `self._bounds = ...` of what was computed.
BoundsStore ==
    /\ bq # <<>>
    /\ bnds' = Some(bq[1])
    /\ bq' = <<>>
    /\ UNCHANGED <<parts, turn, cpu, ctx, own, res, ppc, ghost>>

\* ------------------------------------------------------- the owning thread
\* What _add_to_context leaves behind, as far as it gets: a raise keeps
\* every assignment made before it.
AddToContextResult ==
    LET vb == GlGenBuffer(gl)
        g1 == GlAddBuffer(gl, vb)
        s1 == [vaid |-> 1, buffers |-> <<vb>>, elemId |-> elemId, vcap |-> vcap,
               icap |-> icap, gl |-> g1, exc |-> "ValueError",
               vcount |-> vcount, icount |-> icount, layout |-> <<>>]
    IN
    IF ~HstackOk(positions, normals) THEN s1
    ELSE
    LET vd == VertexData(positions, normals)
        cap == ReserveSize(Len(vd), ratio)
        g2 == GlBufferData(g1, vb, cap)
        s2 == [s1 EXCEPT !.vcap = cap, !.gl = g2, !.exc = "GLError",
                         !.vcount = Len(vd)]
    IN
    IF ~GlSubDataOk(g2, vb, Len(vd)) THEN s2
    ELSE
    LET g3 == GlBufferSubData(g2, vb, Len(vd), vd)
        mb == GlGenBuffer(g3)
        g4 == [GlAddBuffer(g3, mb) EXCEPT
                  ![mb] = [alloc |-> Len(PoseData), data |-> PoseData]]
        s4 == [s2 EXCEPT !.gl = g4, !.buffers = <<vb, mb>>, !.exc = "none",
                         !.layout = AttribPointers(AttrSizes)]
    IN
    IF ~indices.some THEN s4
    ELSE
    LET eb == GlGenBuffer(g4)
        n == Len(indices.arr)
        icp == ReserveSize(n, ratio)
        g5 == GlBufferData(GlAddBuffer(g4, eb), eb, icp)
        s5 == [s4 EXCEPT !.buffers = <<vb, mb, eb>>, !.elemId = eb, !.icap = icp,
                         !.gl = g5, !.icount = n, !.exc = "GLError"]
    IN
    IF ~GlSubDataOk(g5, eb, n) THEN s5
    ELSE [s5 EXCEPT !.gl = GlBufferSubData(g5, eb, n, AsUint32(indices.arr)),
                    !.exc = "none"]

AddToContext ==
    /\ opc = "idle"
    /\ lastOp' = "bind"
    /\ IF vaid # 0
       THEN /\ exc' = "ValueError"
            /\ UNCHANGED <<ctx, bound, deleted, vcount, icount, layout>>
       ELSE LET s == AddToContextResult
            IN  /\ vaid' = s.vaid /\ buffers' = s.buffers /\ elemId' = s.elemId
                /\ vcap' = s.vcap /\ icap' = s.icap /\ gl' = s.gl
                /\ exc' = s.exc /\ bound' = (s.exc = "none")
                /\ deleted' = FALSE
                /\ vcount' = s.vcount /\ icount' = s.icount
                /\ layout' = s.layout
    /\ UNCHANGED <<focus, made, mesh, routed, kernel, tf2, attr, bufFlags, mode, assigns,
                   dsb, pb, tf, cs, dev, pop, parg, pexc, pret, twice,
                   turn, box, nonIdx, cpu, own, ppc, vkind, vprev, iprev>>

\* delete(): _unbind, then _remove_from_context, which releases the vertex
\* array and every buffer of the list when there is a vertex array, and
\* leaves _element_buffer_id and both capacities as they are.
GlDeleteBuffers(g, hs) == [h \in DOMAIN g \ hs |-> g[h]]

Delete ==
    /\ opc = "idle"
    /\ focus = "Primitive"
    /\ dels["Primitive"] < MaxDeletes
    /\ lastOp' = "delete" /\ exc' = "none"
    /\ deleted' = TRUE
    /\ dels' = [dels EXCEPT !["Primitive"] = @ + 1]
    /\ redel' = (IF deleted THEN redel \cup {"Primitive"} ELSE redel)
    /\ IF vaid # 0
       THEN /\ gl' = GlDeleteBuffers(gl, {buffers[k] : k \in 1..Len(buffers)})
            /\ vaid' = 0
            /\ buffers' = <<>>
            /\ bound' = FALSE
            /\ UNCHANGED <<elemId, vcap, icap>>
       ELSE UNCHANGED <<ctx, bound>>
    /\ UNCHANGED <<parts, box, cpu, own, ppc, nonIdx, vcount, icount, vkind, vprev, iprev>>

\* sync_gpu ends: by a return (e = "none") or by raising e.
Finish(e) ==
    /\ opc' = "idle" /\ idata' = <<>> /\ rd' = <<>>
    /\ lastOp' = "sync" /\ exc' = e

\* sync_gpu goes on to its next step.
Goto(pc) ==
    /\ opc' = pc
    /\ lastOp' = "none" /\ exc' = "none"

\* sync_gpu without its `if not self._in_context(): return`.
SyncBeginUnguarded ==
    /\ opc = "idle"
    /\ Goto(IF needsV = Set THEN "updV" ELSE "chkI") /\ UNCHANGED <<idata, rd>>
    /\ UNCHANGED <<parts, turn, box, cpu, ctx, ppc, ghost>>

\* sync_gpu up to its read of _needs_vertex_update.
SyncBegin ==
    /\ opc = "idle"
    /\ IF vaid = 0
       THEN Finish("none")
       ELSE Goto(IF needsV = Set THEN "updV" ELSE "chkI") /\ UNCHANGED <<idata, rd>>
    /\ UNCHANGED <<parts, turn, box, cpu, ctx, ppc, ghost>>

\* _update_vertex_buffer: one read of self.positions, then GL calls only.
UpdateVertexBufferResult ==
    LET vb == buffers[1]
        vd == VertexData(positions, normals)
        n == Len(vd)
        s0 == [vcap |-> vcap, gl |-> gl, exc |-> "none",
               vcount |-> vcount, vkind |-> "none"]
    IN
    IF ~HstackOk(positions, normals) THEN [s0 EXCEPT !.exc = "ValueError"]
    ELSE IF Len(buffers) = 0 THEN s0
    ELSE IF FitsCapacity(n, vcap)
    THEN IF GlSubDataOk(gl, vb, n)
         THEN [s0 EXCEPT !.gl = GlBufferSubData(gl, vb, n, vd),
                         !.vcount = n, !.vkind = "sub"]
         ELSE [s0 EXCEPT !.exc = "GLError", !.vcount = n]
    ELSE LET cap == ReserveSize(n, ratio)
             g1 == GlBufferData(gl, vb, cap)
             s1 == [s0 EXCEPT !.vcap = cap, !.gl = g1, !.vcount = n]
         IN  IF GlSubDataOk(g1, vb, n)
             THEN [s1 EXCEPT !.gl = GlBufferSubData(g1, vb, n, vd),
                             !.vkind = "realloc"]
             ELSE [s1 EXCEPT !.exc = "GLError"]

SyncUpdateVertex ==
    /\ opc = "updV"
    /\ LET s == UpdateVertexBufferResult
       IN  /\ vcap' = s.vcap /\ gl' = s.gl
           /\ vcount' = s.vcount /\ vkind' = s.vkind
           /\ IF s.exc = "none"
              THEN Goto("clrV") /\ UNCHANGED <<idata, rd>>
              ELSE Finish(s.exc)
    /\ UNCHANGED <<parts, turn, box, bound, deleted, nonIdx, cpu, vaid, buffers, elemId, icap, ppc, icount, vprev, iprev>>

\* self._needs_vertex_update = False
SyncClearVertex ==
    /\ opc = "clrV"
    /\ needsV' = Clear
    /\ vkind' = "none" /\ vprev' = <<>>
    /\ Goto("chkI")
    /\ UNCHANGED <<parts, turn, box, bound, deleted, nonIdx, positions, normals, indices, needsI, ratio, ctx, idata, rd,
                   ppc, vcount, icount, iprev>>

\* the read of _needs_index_update
SyncCheckIndex ==
    /\ opc = "chkI"
    /\ IF needsI = Set
       THEN Goto("idxNone") /\ UNCHANGED <<idata, rd>>
       ELSE Finish("none")
    /\ UNCHANGED <<parts, turn, box, cpu, ctx, ppc, ghost>>

\* `if self.indices:` in place of `if self.indices is not None`: an empty
\* index array taken for no index array.
IdxCheckNoneByLength ==
    /\ opc = "idxNone"
    /\ rd' = <<indices>>
    /\ Goto(IF indices.some /\ Len(indices.arr) > 0 THEN "idxData" ELSE "clrI")
    /\ UNCHANGED <<parts, turn, box, cpu, ctx, idata, ppc, ghost>>

\* _update_index_buffer, `if self.indices is not None`
IdxCheckNone ==
    /\ opc = "idxNone"
    /\ rd' = <<indices>>
    /\ Goto(IF indices.some THEN "idxData" ELSE "clrI")
    /\ UNCHANGED <<parts, turn, box, cpu, ctx, idata, ppc, ghost>>

\* `indices_data = self.indices.flatten().astype(np.uint32)`, then the
\* element buffer is looked up or created and bound.  Binding a name that
\* glDeleteBuffers has released is an error in a core profile context and
\* creates a buffer object of that name in a compatibility one.
IdxReadData ==
    /\ opc = "idxData"
    /\ IF ~indices.some
       THEN Finish("AttributeError") /\ UNCHANGED <<ctx>>
       ELSE IF elemId # 0 /\ elemId \notin DOMAIN gl
       THEN \E profile \in Profiles :
               IF profile = "core"
               THEN Finish("GLError") /\ UNCHANGED <<ctx>>
               ELSE /\ rd' = Append(rd, indices)
                    /\ idata' = AsUint32(indices.arr)
                    /\ Goto("idxCmp")
                    /\ gl' = GlAddBuffer(gl, elemId)
                    /\ UNCHANGED <<vaid, buffers, elemId, vcap, icap>>
       ELSE /\ rd' = Append(rd, indices)
            /\ idata' = AsUint32(indices.arr)
            /\ Goto("idxCmp")
            /\ IF elemId # 0
               THEN UNCHANGED <<ctx>>
               ELSE LET eb == GlGenBuffer(gl)
                    IN  /\ gl' = GlAddBuffer(gl, eb)
                        /\ buffers' = Append(buffers, eb)
                        /\ elemId' = eb
                        /\ icap' = NoneCap
                        /\ UNCHANGED <<vaid, vcap>>
    /\ UNCHANGED <<parts, turn, box, cpu, ppc, ghost>>

\* `self.indices.size <= self._index_buffer_capacity`
IdxCompare ==
    /\ opc = "idxCmp"
    /\ IF ~indices.some
       THEN Finish("AttributeError")
       ELSE /\ rd' = Append(rd, indices)
            /\ Goto(IF FitsCapacity(Len(indices.arr), icap)
                    THEN "idxSub" ELSE "idxAlloc")
            /\ UNCHANGED <<idata>>
    /\ UNCHANGED <<parts, turn, box, cpu, ctx, ppc, ghost>>

\* `buffer_size = int(self.indices.size * ratio)`, the capacity, glBufferData
IdxRealloc ==
    /\ opc = "idxAlloc"
    /\ IF ~indices.some
       THEN Finish("AttributeError") /\ UNCHANGED <<icap, gl>>
       ELSE LET cap == ReserveSize(Len(indices.arr), ratio)
            IN  /\ rd' = Append(rd, indices)
                /\ icap' = cap
                /\ gl' = GlBufferData(gl, elemId, cap)
                /\ Goto("idxSubNew")
                /\ UNCHANGED <<idata>>
    /\ UNCHANGED <<parts, turn, box, cpu, vaid, buffers, elemId, vcap, ppc, ghost>>

\* `glBufferSubData(GL_ELEMENT_ARRAY_BUFFER, 0, UINT_SZ * self.indices.size,
\* indices_data)`: line 651 (opc = "idxSub") or line 659 ("idxSubNew")
IdxSubData ==
    /\ opc \in {"idxSub", "idxSubNew"}
    /\ IF ~indices.some
       THEN Finish("AttributeError") /\ UNCHANGED <<gl, icount>>
       ELSE LET n == Len(indices.arr)
            IN  /\ icount' = n
                /\ IF GlSubDataOk(gl, elemId, n)
                   THEN /\ gl' = GlBufferSubData(gl, elemId, n, idata)
                        /\ rd' = Append(rd, indices)
                        /\ Goto("clrI")
                        /\ UNCHANGED <<idata>>
                   ELSE Finish("GLError") /\ UNCHANGED <<gl>>
    /\ UNCHANGED <<parts, turn, box, bound, deleted, nonIdx, cpu, vaid, buffers, elemId, vcap, icap, ppc,
                   vcount, vkind, vprev, iprev>>

\* self._needs_index_update = False, and sync_gpu returns
SyncClearIndex ==
    /\ opc = "clrI"
    /\ needsI' = Clear
    /\ iprev' = <<>>
    /\ nonIdx' = (IF indices.some THEN 0 ELSE elemId)
    /\ Finish("none")
    /\ UNCHANGED <<parts, turn, box, bound, deleted, positions, normals, indices, needsV, ratio, ctx, ppc,
                   vcount, icount, vkind, vprev>>

\* ------------------------------------------------------------ specifications
TopologyArgs == {None} \cup {Some(a) : a \in IdxArrays}

\* Any thread may run between any two steps of any other.
NextThreads ==
    \/ AddToContext
    \/ SyncBegin
    \/ SyncUpdateVertex
    \/ SyncClearVertex
    \/ SyncCheckIndex
    \/ IdxCheckNone
    \/ IdxReadData
    \/ IdxCompare
    \/ IdxRealloc
    \/ IdxSubData
    \/ SyncClearIndex
    \/ \E p \in DOMAIN ppc, a \in ThreadPositions : UpdatePositionsStore(p, a, FALSE)
    \/ \E p \in DOMAIN ppc : UpdatePositionsFlag(p)
    \/ \E p \in DOMAIN ppc, i \in TopologyArgs : UpdateTopologyStore(p, i, FALSE)
    \/ \E p \in DOMAIN ppc : UpdateTopologyFlag(p)

SpecThreads == InitThreads /\ [][NextThreads]_vars

\* The owning thread keeps calling sync_gpu and every call that has started
\* runs to its end; nothing obliges a producer to start a call.
InitFair ==
    /\ InitThreads
    /\ positions = PosArr(1, 1)
    /\ indices = Some(IdxArr(1))
    /\ ratio = <<1, 1>>

Fairness ==
    /\ WF_vars(SyncBegin)
    /\ WF_vars(SyncUpdateVertex)
    /\ WF_vars(SyncClearVertex)
    /\ WF_vars(SyncCheckIndex)
    /\ WF_vars(IdxCheckNone)
    /\ WF_vars(IdxReadData)
    /\ WF_vars(IdxCompare)
    /\ WF_vars(IdxRealloc)
    /\ WF_vars(IdxSubData)
    /\ WF_vars(SyncClearIndex)
    /\ \A p \in Producers : WF_vars(UpdatePositionsFlag(p))
    /\ \A p \in Producers : WF_vars(UpdateTopologyFlag(p))

SpecFair == InitFair /\ [][NextThreads]_vars /\ Fairness

\* The interleavings with a thread that queries the bounds.
InitBounds ==
    /\ InitThreads
    /\ ~indices.some
    /\ ratio = <<1, 1>>

NextBounds ==
    \/ NextThreads
    \/ BoundsCompute
    \/ BoundsStore

SpecBounds == InitBounds /\ [][NextBounds]_vars

\* One call at a time: no call starts or continues while another is under way.
ProducersIdle == \A p \in DOMAIN ppc : ppc[p] = "idle"
Alone(p) == opc = "idle" /\ \A q \in DOMAIN ppc \ {p} : ppc[q] = "idle"

CallsWith(track, posArgs, idxArgs) ==
    \/ ProducersIdle /\ AddToContext
    \/ ProducersIdle /\ SyncBegin
    \/ ProducersIdle /\ SyncUpdateVertex
    \/ ProducersIdle /\ SyncClearVertex
    \/ ProducersIdle /\ SyncCheckIndex
    \/ ProducersIdle /\ IdxCheckNone
    \/ ProducersIdle /\ IdxReadData
    \/ ProducersIdle /\ IdxCompare
    \/ ProducersIdle /\ IdxRealloc
    \/ ProducersIdle /\ IdxSubData
    \/ ProducersIdle /\ SyncClearIndex
    \/ \E p \in DOMAIN ppc, a \in posArgs :
          Alone(p) /\ UpdatePositionsStore(p, a, track)
    \/ \E p \in DOMAIN ppc : Alone(p) /\ UpdatePositionsFlag(p)
    \/ \E p \in DOMAIN ppc, i \in idxArgs :
          Alone(p) /\ UpdateTopologyStore(p, i, track)
    \/ \E p \in DOMAIN ppc : Alone(p) /\ UpdateTopologyFlag(p)

Calls(track) == CallsWith(track, PosArrays, TopologyArgs)

Next == Calls(FALSE)

Spec == Init /\ [][Next]_vars

\* The calls of a primitive's whole life: delete() among them.
NextLife ==
    \/ Calls(FALSE)
    \/ ProducersIdle /\ Delete

\* For a whole life: the constructor's arguments that the release of the
\* handles does not depend on are fixed.
InitLife == Init /\ ~normals.some /\ ratio = <<1, 1>> /\ Len(positions) = 1

SpecLife == InitLife /\ [][NextLife]_vars

\* The same calls, with the history variables vprev and iprev kept.
NextHistory == Calls(TRUE)

SpecHistory == Init /\ [][NextHistory]_vars

\* ------------------------------------------------- bytes and byte arrays
\* The bytes of a data argument (data.tobytes(), as np.uint8), and the data
\* arguments: every byte string of up to MaxBytes + 1 bytes.
Bytes == {1, 200}
ByteSeqs ==
    {[i \in 1..n |-> IF i % 2 = 1 THEN b ELSE 201 - b] :
        n \in 0..(MaxBytes + 1), b \in Bytes}
Offsets == (0 - (MaxBytes + 1))..(MaxBytes + 1)

\* A np.uint8 value stored into the c_byte view of the mapping.
AsInt8(b) == IF b >= 128 THEN b - 256 ELSE b

\* Python's slice a[lo:hi] of a sequence of n items: a negative bound counts
\* from the end, and both are clamped to 0..n.
Clamp(i, n) ==
    IF i < 0 THEN (IF i + n < 0 THEN 0 ELSE i + n)
    ELSE IF i > n THEN n ELSE i
SliceLo(n, lo) == Clamp(lo, n)
SliceLen(n, lo, hi) ==
    IF Clamp(hi, n) > Clamp(lo, n) THEN Clamp(hi, n) - Clamp(lo, n) ELSE 0

\* numpy's `a[lo:hi] = d`: the shapes must agree, except that one item is
\* broadcast to a slice of any length, an empty one too.
SliceAssignOk(a, lo, hi, d) ==
    Len(d) = SliceLen(Len(a), lo, hi) \/ Len(d) = 1
SliceAssign(a, lo, hi, d) ==
    [i \in 1..Len(a) |->
        IF SliceLo(Len(a), lo) < i /\ i <= SliceLo(Len(a), lo) + SliceLen(Len(a), lo, hi)
        THEN AsInt8(IF Len(d) = 1 THEN d[1] ELSE d[i - SliceLo(Len(a), lo)])
        ELSE a[i]]

\* A call on one of the four objects ends.
Ends(op, arg, e) == pop' = op /\ parg' = arg /\ pexc' = e /\ pret' = <<>>

\* glDelete*(names): deleting a name that is not alive is recorded.
Dead(alive, names) == \E h \in names : h \notin alive

\* delete() of object c has been called once more.
Counted(c, was) ==
    /\ dels[c] < MaxDeletes
    /\ dels' = [dels EXCEPT ![c] = @ + 1]
    /\ redel' = (IF was THEN redel \cup {c} ELSE redel)
    /\ UNCHANGED who

\* ------------------------------------------------------ DirectStateBuffer
\* set_data(data): self._size is assigned before the first GL call, which
\* raises on the id None of a deleted buffer.
DsbSetData(data) ==
    /\ focus = "DirectStateBuffer"
    /\ Len(data) <= MaxBytes
    /\ dsb' = [dsb EXCEPT !.size = Len(data)]
    /\ IF dsb.id = 0
       THEN Ends("set_data", <<data>>, "ArgumentError") /\ UNCHANGED dev
       ELSE /\ Ends("set_data", <<data>>, "none")
            /\ dev' = [dev EXCEPT !.bufs[dsb.id] =
                            [alloc |-> Len(data), data |-> data]]
    /\ UNCHANGED <<prim, turn, who, pb, tf, cs, twice>>

\* update_data(data, offset): the size test, then glBufferSubData, which
\* rejects a negative offset.
DsbUpdateData(data, offset) ==
    /\ focus = "DirectStateBuffer"
    /\ IF offset + Len(data) > dsb.size
       THEN Ends("update_data", <<data, offset>>, "ValueError") /\ UNCHANGED dev
       ELSE IF dsb.id = 0
       THEN Ends("update_data", <<data, offset>>, "ArgumentError") /\ UNCHANGED dev
       ELSE IF offset < 0
       THEN Ends("update_data", <<data, offset>>, "GLError") /\ UNCHANGED dev
       ELSE /\ Ends("update_data", <<data, offset>>, "none")
            /\ dev' = [dev EXCEPT !.bufs[dsb.id].data =
                          [i \in 1..Len(@) |->
                              IF offset < i /\ i <= offset + Len(data)
                              THEN data[i - offset] ELSE @[i]]]
    /\ UNCHANGED <<prim, turn, who, dsb, pb, tf, cs, twice>>

DsbDelete ==
    /\ focus = "DirectStateBuffer"
    /\ Counted("DirectStateBuffer", dsb.id = 0)
    /\ Ends("delete", <<>>, "none")
    /\ IF dsb.id # 0
       THEN /\ dev' = [dev EXCEPT !.bufs = GlDeleteBuffers(@, {dsb.id})]
            /\ twice' = (twice \/ Dead(DOMAIN dev.bufs, {dsb.id}))
            /\ dsb' = [dsb EXCEPT !.id = 0]
       ELSE UNCHANGED <<dev, twice, dsb>>
    /\ UNCHANGED <<prim, pb, tf, cs>>

\* ------------------------------------------------------- PersistentBuffer
\* update(data, offset): the size test, then the slice assignment into the
\* view of the mapping (None after delete()).
PbUpdate(data, offset) ==
    /\ focus = "PersistentBuffer"
    /\ IF offset + Len(data) > pb.size
       THEN Ends("update", <<data, offset>>, "ValueError") /\ UNCHANGED pb
       ELSE IF ~pb.array.some
       THEN Ends("update", <<data, offset>>, "TypeError") /\ UNCHANGED pb
       ELSE IF ~SliceAssignOk(pb.array.arr, offset, offset + Len(data), data)
       THEN Ends("update", <<data, offset>>, "ValueError(broadcast)") /\ UNCHANGED pb
       ELSE /\ Ends("update", <<data, offset>>, "none")
            /\ pb' = [pb EXCEPT !.array =
                        Some(SliceAssign(@.arr, offset, offset + Len(data), data))]
    /\ UNCHANGED <<prim, turn, who, dsb, tf, cs, dev, twice>>

\* delete(): under `if self._id is not None`, the buffer is unmapped and
\* deleted, and the id, the mapping and its view are set to None.
PbDeleteGuardAlways == TRUE
PbDeleteGuard == pb.id # 0

PbReleasedKeepsView == [pb EXCEPT !.id = 0, !.mapped_data = FALSE]
PbReleased == [pb EXCEPT !.id = 0, !.mapped_data = FALSE, !.array = None]

PbDelete ==
    /\ focus = "PersistentBuffer"
    /\ Counted("PersistentBuffer", pb.id = 0)
    /\ Ends("delete", <<>>, "none")
    /\ IF PbDeleteGuard
       THEN /\ dev' = [dev EXCEPT !.bufs = GlDeleteBuffers(@, {pb.id})]
            /\ twice' = (twice \/ Dead(DOMAIN dev.bufs, {pb.id}))
            /\ pb' = PbReleased
       ELSE UNCHANGED <<dev, twice, pb>>
    /\ UNCHANGED <<prim, dsb, tf, cs>>

\* ------------------------------------------------------ TransformFeedback
\* What a GL call, or a run of them, leaves: the exception raised ("none":
\* it returned) and the context.
Left(e, d) == [exc |-> e, dev |-> d]

\* glUseProgram(program): not while transform feedback is active.
GlUseProgram(d, program) ==
    IF program \notin d.progs \/ d.xfb.active
    THEN Left("GLError", d)
    ELSE Left("none", [d EXCEPT !.used = program])

\* glBindTransformFeedback(GL_TRANSFORM_FEEDBACK, id): not while transform
\* feedback is active; id is 0, the default object, or a live name.
GlBindTransformFeedback(d, id) ==
    IF d.xfb.active \/ id \notin d.tfos \cup {0}
    THEN Left("GLError", d)
    ELSE Left("none", [d EXCEPT !.xfb.bound = id])

\* glBindBufferBase(GL_TRANSFORM_FEEDBACK_BUFFER, binding_point, buffer):
\* a binding point of the bound feedback object.
GlBindBufferBase(d, bp, buffer) ==
    IF d.xfb.active \/ buffer \notin DOMAIN d.bufs
    THEN Left("GLError", d)
    ELSE Left("none", [d EXCEPT !.points[d.xfb.bound] =
                [q \in DOMAIN @ \cup {bp} |-> IF q = bp THEN buffer ELSE @[q]]])

\* glBeginTransformFeedback(mode): needs a program in use and a buffer at
\* binding point 0, the one GL_INTERLEAVED_ATTRIBS writes to.
GlBeginTransformFeedback(d) ==
    IF d.xfb.active \/ d.used = 0 \/ 0 \notin DOMAIN d.points[d.xfb.bound]
    THEN Left("GLError", d)
    ELSE Left("none", [d EXCEPT !.xfb.active = TRUE])

\* glEndTransformFeedback()
GlEndTransformFeedback(d) ==
    IF d.xfb.active
    THEN Left("none", [d EXCEPT !.xfb.active = FALSE])
    ELSE Left("GLError", d)

\* glDeleteTransformFeedbacks(1, [id]): not an active one; a bound one
\* leaves the default object bound.
GlDeleteTransformFeedbacks(d, id) ==
    IF d.xfb.active /\ d.xfb.bound = id
    THEN Left("GLError", d)
    ELSE Left("none", [d EXCEPT
            !.tfos = @ \ {id},
            !.points = [t \in DOMAIN @ \ {id} |-> @[t]],
            !.xfb.bound = IF @ = id THEN 0 ELSE @])

\* glGenTransformFeedbacks(1), glCreateProgram(): an unused name (the
\* lowest one).
GlGenTransformFeedbacks(tfos) == CHOOSE n \in 1..(Cardinality(tfos) + 1) : n \notin tfos
GlCreateProgram(progs) == CHOOSE n \in 1..(Cardinality(progs) + 1) : n \notin progs

\* The two TransformFeedback objects, and the two buffers given to them.
Feedbacks == {1, 2}
Feedback(i) == IF i = 1 THEN tf ELSE tf2
BufferId(b) == IF b = "dsb" THEN dsb.id ELSE pb.id

\* TransformFeedback(varyings): the feedback object, the program, the shader
\* compiled, the program linked.  A compile failure deletes the shader and
\* raises, a link failure deletes the program and the shader and raises;
\* self._id and self._program are assigned by then.
Outcomes == {"ok", "compile", "link"}

TfInit(outcome) ==
    /\ focus = "TransformFeedback" /\ made = "no"
    /\ LET id == GlGenTransformFeedbacks(dev.tfos)
           program == GlCreateProgram(dev.progs)
       IN  /\ tf2' = [id |-> id, buffers |-> <<>>, program |-> program]
           /\ dev' = [dev EXCEPT
                        !.tfos = @ \cup {id},
                        !.points = [t \in DOMAIN @ \cup {id} |->
                                       IF t = id THEN <<>> ELSE @[t]],
                        !.progs = IF outcome = "link" THEN @ ELSE @ \cup {program}]
    /\ made' = (IF outcome = "ok" THEN "ok" ELSE "failed")
    /\ Ends("TransformFeedback", <<outcome>>,
            IF outcome = "ok" THEN "none" ELSE "ValueError")
    /\ UNCHANGED <<prim, turn, layout, focus, mesh, routed, kernel, attr, bufFlags, mode, assigns,
                   dsb, pb, tf, cs, twice>>

\* attach_buffer(buffer, binding_point): the feedback object is bound
\* first, which raises on the id None of a deleted one and while a capture
\* is active; then buffer.bind(binding_point); then the pair is appended.
MaxAttach == 2
BindingPoints == {0, 1}

AttachBufferAppendsFirst(t, d, b, bp) ==
    IF t.id = 0
    THEN [exc |-> "ArgumentError", dev |-> d, buffers |-> t.buffers]
    ELSE LET onto == GlBindTransformFeedback(d, t.id)
             based == GlBindBufferBase(onto.dev, bp, BufferId(b))
         IN  [exc |-> IF onto.exc # "none" THEN onto.exc
                      ELSE IF BufferId(b) = 0 THEN "ArgumentError"
                      ELSE based.exc,
              dev |-> IF onto.exc # "none" THEN d
                      ELSE IF BufferId(b) = 0 THEN onto.dev
                      ELSE based.dev,
              buffers |-> Append(t.buffers, <<b, bp>>)]

AttachBuffer(t, d, b, bp) ==
    IF t.id = 0
    THEN [exc |-> "ArgumentError", dev |-> d, buffers |-> t.buffers]
    ELSE LET onto == GlBindTransformFeedback(d, t.id)
             based == GlBindBufferBase(onto.dev, bp, BufferId(b))
         IN  IF onto.exc # "none"
             THEN [exc |-> onto.exc, dev |-> d, buffers |-> t.buffers]
             ELSE IF BufferId(b) = 0
             THEN [exc |-> "ArgumentError", dev |-> onto.dev, buffers |-> t.buffers]
             ELSE IF based.exc # "none"
             THEN [exc |-> based.exc, dev |-> onto.dev, buffers |-> t.buffers]
             ELSE [exc |-> "none", dev |-> based.dev,
                   buffers |-> Append(t.buffers, <<b, bp>>)]

TfAttachBuffer(b, bp) ==
    /\ focus = "TransformFeedback"
    /\ Len(tf.buffers) < MaxAttach
    /\ LET r == AttachBuffer(tf, dev, b, bp)
       IN  /\ Ends("attach_buffer", <<b, bp>>, r.exc)
           /\ tf' = [tf EXCEPT !.buffers = r.buffers]
           /\ dev' = r.dev
    /\ UNCHANGED <<prim, turn, who, dsb, pb, cs, twice>>

\* The same call on the second object, with the mapped buffer at point 0.
OtherAttachBuffer ==
    /\ focus = "TransformFeedback" /\ made = "ok"
    /\ Len(tf2.buffers) < MaxAttach
    /\ LET r == AttachBuffer(tf2, dev, "pb", 0)
       IN  /\ Ends("attach_buffer", <<2, "pb", 0>>, r.exc)
           /\ tf2' = [tf2 EXCEPT !.buffers = r.buffers]
           /\ dev' = r.dev
    /\ UNCHANGED <<prim, turn, layout, focus, made, mesh, routed, kernel, attr, bufFlags, mode,
                   assigns, dsb, pb, tf, cs, twice>>

\* begin(): glUseProgram, glBindTransformFeedback, glBeginTransformFeedback;
\* the first call that raises ends it.
BeginUnchecked(t, d) ==
    LET used == GlUseProgram(d, t.program)
        onto == GlBindTransformFeedback(used.dev, t.id)
        begun == GlBeginTransformFeedback(onto.dev)
    IN  IF t.id = 0 THEN Left("ArgumentError", used.dev)
        ELSE Left("none", begun.dev)

Begin(t, d) ==
    LET used == GlUseProgram(d, t.program)
        onto == GlBindTransformFeedback(used.dev, t.id)
        begun == GlBeginTransformFeedback(onto.dev)
    IN  IF used.exc # "none" THEN used
        ELSE IF t.id = 0 THEN Left("ArgumentError", used.dev)
        ELSE IF onto.exc # "none" THEN onto
        ELSE begun

TfBegin(i) ==
    /\ focus = "TransformFeedback"
    /\ i = 2 => made = "ok"
    /\ LET r == Begin(Feedback(i), dev)
       IN  Ends("begin", <<i>>, r.exc) /\ dev' = r.dev
    /\ UNCHANGED <<prim, turn, who, dsb, pb, tf, cs, twice>>

\* end(): glEndTransformFeedback, then the default object is bound; it
\* ends the capture that is active, whichever object began it.
End(d) ==
    LET ended == GlEndTransformFeedback(d)
    IN  IF ended.exc # "none" THEN ended
        ELSE GlBindTransformFeedback(ended.dev, 0)

TfEnd(i) ==
    /\ focus = "TransformFeedback"
    /\ i = 2 => made = "ok"
    /\ LET r == End(dev)
       IN  Ends("end", <<i>>, r.exc) /\ dev' = r.dev
    /\ UNCHANGED <<prim, turn, who, dsb, pb, tf, cs, twice>>

\* delete(): the feedback object only; the program stays.
TfDelete ==
    /\ focus = "TransformFeedback"
    /\ Counted("TransformFeedback", tf.id = 0)
    /\ IF tf.id # 0
       THEN LET r == GlDeleteTransformFeedbacks(dev, tf.id)
            IN  /\ Ends("delete", <<>>, r.exc)
                /\ dev' = r.dev
                /\ twice' = (twice \/ Dead(dev.tfos, {tf.id}))
                /\ tf' = IF r.exc = "none"
                         THEN [tf EXCEPT !.id = 0, !.buffers = <<>>] ELSE tf
       ELSE Ends("delete", <<>>, "none") /\ UNCHANGED <<dev, twice, tf>>
    /\ UNCHANGED <<prim, dsb, pb, cs>>

\* ---------------------------------------------------------- ComputeShader
\* The arrays handed to create_storage_buffer and update_buffer: an element
\* type, a shape (one axis) and the elements.
Names == {"a", "b"}
Dtypes == {"float32", "uint32"}
CsArray(t, v) == [dtype |-> t, shape |-> <<Len(v)>>, vals |-> v]
CsArrays ==
    {CsArray("float32", <<1>>), CsArray("float32", <<2>>),
     CsArray("float32", <<1, 2>>), CsArray("uint32", <<1>>)}

Registered == DOMAIN cs.ssbo_map

\* A binding index the context does not have: glBindBufferBase rejects it.
BadBinding == -1

\* create_storage_buffer(name, data, binding): the name test; then the
\* buffer is generated and filled, bound to the binding point, and
\* registered.  glBindBufferBase raises on a binding index the context
\* does not have, with the buffer generated and filled by then.
CreateStorageBuffer(name, data, binding) ==
    /\ focus = "ComputeShader"
    /\ IF name \in Registered
       THEN /\ Ends("create_storage_buffer", <<name, data, binding>>, "ValueError")
            /\ UNCHANGED <<cs, dev>>
       ELSE IF binding \notin BindingPoints
       THEN LET ssbo == GlGenBuffer(dev.bufs)
            IN  /\ Ends("create_storage_buffer", <<name, data, binding>>, "GLError")
                /\ dev' = [dev EXCEPT
                        !.bufs = [h \in DOMAIN @ \cup {ssbo} |->
                                     IF h = ssbo
                                     THEN [alloc |-> Len(data.vals), data |-> data.vals]
                                     ELSE @[h]]]
                /\ UNCHANGED cs
       ELSE LET ssbo == GlGenBuffer(dev.bufs)
            IN  /\ Ends("create_storage_buffer", <<name, data, binding>>, "none")
                /\ dev' = [dev EXCEPT
                        !.bufs = [h \in DOMAIN @ \cup {ssbo} |->
                                     IF h = ssbo
                                     THEN [alloc |-> Len(data.vals), data |-> data.vals]
                                     ELSE @[h]],
                        !.base = [p \in DOMAIN @ \cup {binding} |->
                                     IF p = binding THEN ssbo ELSE @[p]]]
                /\ cs' = [cs EXCEPT !.ssbo_map =
                        [n \in Registered \cup {name} |->
                            IF n = name
                            THEN [ssbo |-> ssbo, binding |-> binding,
                                  dtype |-> data.dtype, shape |-> data.shape]
                            ELSE @[n]]]
    /\ UNCHANGED <<prim, turn, who, dsb, pb, tf, twice>>

\* update_buffer(name, data)
UpdateBufferAcceptsAnyShape(name, data) ==
    /\ name \in Registered
    /\ data.dtype = cs.ssbo_map[name].dtype

UpdateBufferAccepts(name, data) ==
    /\ name \in Registered
    /\ data.dtype = cs.ssbo_map[name].dtype
    /\ data.shape = cs.ssbo_map[name].shape

UpdateBuffer(name, data) ==
    /\ focus = "ComputeShader"
    /\ IF ~UpdateBufferAccepts(name, data)
       THEN Ends("update_buffer", <<name, data>>, "ValueError") /\ UNCHANGED dev
       ELSE LET ssbo == cs.ssbo_map[name].ssbo
            IN  IF ~GlSubDataOk(dev.bufs, ssbo, Len(data.vals))
                THEN Ends("update_buffer", <<name, data>>, "GLError") /\ UNCHANGED dev
                ELSE /\ Ends("update_buffer", <<name, data>>, "none")
                     /\ dev' = [dev EXCEPT
                            !.bufs = GlBufferSubData(@, ssbo, Len(data.vals), data.vals),
                            !.incoh = [h \in DOMAIN @ \ {ssbo} |-> @[h]]]
    /\ UNCHANGED <<prim, turn, who, dsb, pb, tf, cs, twice>>

\* _add_to_context(): refused when a program id is held; the shader is
\* compiled, and on failure deleted before ValueError is raised with the
\* info log; then self._program_id = glCreateProgram() and the link, and on
\* failure the program and the shader are deleted before ValueError is
\* raised with the info log, self._program_id keeping the name.
CsAddToContext(outcome) ==
    /\ focus = "ComputeShader"
    /\ IF cs.program_id # 0
       THEN Ends("_add_to_context", <<>>, "ValueError") /\ UNCHANGED <<cs, dev>>
       ELSE IF outcome = "compile"
       THEN Ends("_add_to_context", <<outcome>>, "ValueError") /\ UNCHANGED <<cs, dev>>
       ELSE LET program == GlCreateProgram(dev.progs)
            IN  /\ cs' = [cs EXCEPT !.program_id = program]
                /\ IF outcome = "link"
                   THEN /\ Ends("_add_to_context", <<outcome>>, "ValueError")
                        /\ UNCHANGED dev
                   ELSE /\ Ends("_add_to_context", <<outcome>>, "none")
                        /\ dev' = [dev EXCEPT !.progs = @ \cup {program}]
    /\ UNCHANGED <<prim, turn, who, dsb, pb, tf, twice>>

\* delete(): the program if there is one, then every registered buffer;
\* glDeleteBuffers resets the binding points the buffer is bound to.
\* glDeleteProgram raises on a name that is no program, the one a failed
\* link left in self._program_id, and delete() ends there.
CsDelete ==
    /\ focus = "ComputeShader"
    /\ Counted("ComputeShader", cs.program_id = 0)
    /\ IF cs.program_id # 0 /\ cs.program_id \notin dev.progs
       THEN /\ Ends("delete", <<>>, "GLError")
            /\ twice' = TRUE
            /\ UNCHANGED <<dev, cs>>
       ELSE /\ Ends("delete", <<>>, "none")
            /\ LET ssbos == {cs.ssbo_map[n].ssbo : n \in Registered}
                   prog == IF cs.program_id # 0 THEN {cs.program_id} ELSE {}
               IN  /\ dev' = [dev EXCEPT
                        !.progs = @ \ prog,
                        !.bufs = GlDeleteBuffers(@, ssbos),
                        !.base = [p \in {q \in DOMAIN @ : @[q] \notin ssbos} |-> @[p]],
                        !.incoh = [h \in DOMAIN @ \ ssbos |-> @[h]]]
                   /\ twice' = (twice \/ Dead(dev.progs, prog) \/ Dead(DOMAIN dev.bufs, ssbos))
            /\ cs' = [program_id |-> 0, ssbo_map |-> <<>>]
    /\ UNCHANGED <<prim, dsb, pb, tf>>

\* What a shader reads in buffer h: what shaders wrote last, else what
\* the API wrote.
ShaderView(d, h) == IF h \in DOMAIN d.incoh THEN d.incoh[h] ELSE d.bufs[h].data

\* The element type the registry records for buffer h.
DtypeOf(h) ==
    LET n == CHOOSE m \in Registered : cs.ssbo_map[m].ssbo = h
    IN  cs.ssbo_map[n].dtype

\* glDispatchCompute: work group i reads element i of the buffer at binding
\* point 0 as a float and writes twice its value to element i of the output
\* buffer.  An access outside a buffer, or to a binding point with no
\* buffer, reads an undefined value and writes nothing; a float read from
\* elements that are not floats is no number the model follows.  The writes
\* are incoherent: shaders see them, API commands need not yet.
KernelOut(d, k) ==
    LET out == IF k.source = "in_place" THEN 0 ELSE 1
    IN  IF out \notin DOMAIN d.base
        THEN d
        ELSE LET o == d.base[out]
                 old == ShaderView(d, o)
                 src == IF 0 \in DOMAIN d.base THEN ShaderView(d, d.base[0]) ELSE <<>>
                 isFloat == 0 \in DOMAIN d.base /\ DtypeOf(d.base[0]) = "float32"
                 new == [i \in 1..Len(old) |->
                            IF i > k.work_groups THEN old[i]
                            ELSE IF i <= Len(src) /\ isFloat /\ src[i] >= 0
                            THEN 2 * src[i] ELSE Garbage]
             IN  [d EXCEPT !.incoh =
                    [h \in DOMAIN @ \cup {o} |-> IF h = o THEN new ELSE @[h]]]

\* glMemoryBarrier(bits): with GL_BUFFER_UPDATE_BARRIER_BIT the shader writes
\* made before it are what glBufferSubData, glMapBuffer and the like then
\* see; GL_SHADER_STORAGE_BARRIER_BIT orders them for later shaders only.
GlMemoryBarrier(d, bits) ==
    IF "GL_BUFFER_UPDATE_BARRIER_BIT" \in bits
    THEN [d EXCEPT
            !.bufs = [h \in DOMAIN @ |->
                        IF h \in DOMAIN d.incoh
                        THEN [@[h] EXCEPT !.data = d.incoh[h]] ELSE @[h]],
            !.incoh = <<>>]
    ELSE d

\* The values the doubling may reach.
MaxVal == 4

\* dispatch(): glUseProgram, glDispatchCompute, glMemoryBarrier.
DispatchBarrier == {"GL_SHADER_STORAGE_BARRIER_BIT"}

Dispatch ==
    /\ focus = "ComputeShader"
    /\ \A h \in DOMAIN dev.bufs : \A i \in DOMAIN ShaderView(dev, h) :
          ShaderView(dev, h)[i] < MaxVal
    /\ IF cs.program_id = 0
       THEN Ends("dispatch", <<>>, "ArgumentError") /\ UNCHANGED dev
       ELSE IF cs.program_id \notin dev.progs
       THEN Ends("dispatch", <<>>, "GLError") /\ UNCHANGED dev
       ELSE /\ Ends("dispatch", <<>>, "none")
            /\ dev' = GlMemoryBarrier(
                        KernelOut(GlUseProgram(dev, cs.program_id).dev, kernel),
                        DispatchBarrier)
    /\ UNCHANGED <<prim, turn, who, dsb, pb, tf, cs, twice>>

\* read_buffer(name): the buffer is mapped for reading, which may show the
\* API's last write or a shader's incoherent one; the view of the mapping
\* is copied after glUnmapBuffer has made the pointer invalid, and the copy
\* holds what the mapping held or whatever is at that address by then.
Mapped(d, h) ==
    {d.bufs[h].data} \cup (IF h \in DOMAIN d.incoh THEN {d.incoh[h]} ELSE {})

ReadBuffer(name) ==
    /\ focus = "ComputeShader"
    /\ pop' = "read_buffer" /\ parg' = <<name>>
    /\ IF name \notin Registered
       THEN pexc' = "ValueError" /\ pret' = <<>>
       ELSE LET e == cs.ssbo_map[name]
            IN  /\ pexc' = "none"
                /\ \E seen \in Mapped(dev, e.ssbo), intact \in BOOLEAN :
                      pret' = [dtype |-> e.dtype, shape |-> e.shape,
                               vals |-> IF intact THEN seen
                                        ELSE [i \in 1..Len(seen) |-> Garbage]]
    /\ UNCHANGED <<prim, turn, who, dsb, pb, tf, cs, dev, twice>>

\* --------------------------------------------- the calls, object by object
NextObjects ==
    \/ \E d \in ByteSeqs : DsbSetData(d)
    \/ \E d \in ByteSeqs, o \in Offsets : DsbUpdateData(d, o)
    \/ DsbDelete
    \/ \E d \in ByteSeqs, o \in Offsets : PbUpdate(d, o)
    \/ PbDelete
    \/ \E b \in {"dsb", "pb"}, bp \in BindingPoints : TfAttachBuffer(b, bp)
    \/ TfDelete
    \/ \E n \in Names, d \in CsArrays, b \in BindingPoints :
          CreateStorageBuffer(n, d, b)
    \/ \E n \in Names, d \in CsArrays : UpdateBuffer(n, d)
    \/ CsDelete

\* ... the primitive among them, with one vertex and at most one index.
PartsTopology == {None, Some(IdxArr(1))}

NextParts ==
    \/ NextObjects
    \/ focus = "Primitive" /\ CallsWith(FALSE, ThreadPositions, PartsTopology)
    \/ focus = "Primitive" /\ ProducersIdle /\ Delete

InitParts ==
    /\ Constructed
    /\ ~normals.some /\ ratio = <<1, 1>> /\ positions \in ThreadPositions
    /\ indices \in PartsTopology
    /\ ppc = [p \in Producers |-> "idle"]
    /\ PartsConstructed
    /\ focus \in Components
    /\ focus # "PersistentBuffer" => pb.size = 1
    /\ kernel = Kernel("in_place", 1) /\ mesh = <<>> /\ PlainPrimitive

SpecParts == InitParts /\ [][NextParts]_vars

\* The four objects other than the primitive.
InitObjects == InitParts /\ focus # "Primitive"

SpecObjects == InitObjects /\ [][NextObjects]_vars

\* Two TransformFeedback objects in one context, captures begun and ended.
NextFeedback ==
    \/ \E o \in Outcomes : TfInit(o)
    \/ \E b \in {"dsb", "pb"}, bp \in BindingPoints : TfAttachBuffer(b, bp)
    \/ OtherAttachBuffer
    \/ \E i \in Feedbacks : TfBegin(i)
    \/ \E i \in Feedbacks : TfEnd(i)
    \/ TfDelete

InitFeedback ==
    /\ Constructed
    /\ ~normals.some /\ ratio = <<1, 1>> /\ positions = PosArr(1, 1)
    /\ indices = None
    /\ ppc = [p \in Producers |-> "idle"]
    /\ PartsConstructed
    /\ focus = "TransformFeedback" /\ pb.size = 1
    /\ kernel = Kernel("in_place", 1) /\ mesh = <<>> /\ PlainPrimitive

SpecFeedback == InitFeedback /\ [][NextFeedback]_vars

\* ------------------------------------------- attributes, flags and mode
\* The values assigned to an attribute: None, or an array of which the
\* shape is followed, with the rows of the positions or one more.
MaxAssign == 2
Shapes(n) == {<<r, c>> : r \in {n, n + 1}, c \in 2..4}
AttrInputs(n) == {None} \cup {Some(sh) : sh \in Shapes(n)}
NormalInputs(n) == {None, Some(NormArr(n)), Some(NormArr(n + 1))}

\* format_color_array(value, shape=(n, 4)): an array of that shape, or
\* ValueError for one that cannot be brought to it.
FormatColorArrayOk(sh, n) == sh[1] = n /\ sh[2] \in {3, 4}
FormatColorArray(sh, n) == <<n, 4>>

\* The test each setter makes before it stores the value: joints_0 and
\* weights_0 make none.
SetterAccepts(name, v, n) ==
    \/ ~v.some
    \/ name = "tangents" /\ v.arr = <<n, 4>>
    \/ name = "texcoord_0" /\ v.arr[1] = n /\ v.arr[2] >= 2
    \/ name = "texcoord_1" /\ v.arr[1] = n /\ v.arr[2] = 2
    \/ name = "color_0" /\ FormatColorArrayOk(v.arr, n)
    \/ name \in {"joints_0", "weights_0"}

\* What it stores: texcoord_0 keeps the first two columns.
SetterStores(name, v, n) ==
    IF ~v.some THEN None
    ELSE IF name = "texcoord_0" THEN Some(<<v.arr[1], 2>>)
    ELSE IF name = "color_0" THEN Some(FormatColorArray(v.arr, n))
    ELSE v

\* primitive.<name> = v, for the six attributes that are not followed as
\* arrays.
Assign(name, v) ==
    /\ focus = "Primitive" /\ mode # NoMode
    /\ assigns < MaxAssign /\ assigns' = assigns + 1
    /\ pop' = name /\ parg' = <<v>> /\ pret' = <<>>
    /\ IF SetterAccepts(name, v, Len(positions))
       THEN /\ pexc' = "none"
            /\ attr' = [attr EXCEPT ![name] = SetterStores(name, v, Len(positions))]
       ELSE pexc' = "ValueError" /\ attr' = attr
    /\ UNCHANGED <<prim, turn, layout, focus, made, mesh, routed, kernel, tf2, bufFlags, mode,
                   dsb, pb, tf, cs, dev, twice>>

\* primitive.normals = v: the shape of the positions, or ValueError.
AssignNormals(v) ==
    /\ focus = "Primitive" /\ mode # NoMode
    /\ assigns < MaxAssign /\ assigns' = assigns + 1
    /\ pop' = "normals" /\ parg' = <<v>> /\ pret' = <<>>
    /\ IF v.some /\ Len(v.arr) # Len(positions)
       THEN pexc' = "ValueError" /\ normals' = normals
       ELSE pexc' = "none" /\ normals' = v
    /\ UNCHANGED <<positions, indices, needsV, needsI, ratio, ctx, own, res, ppc,
                   ghost, box, turn, layout, focus, made, mesh, routed, kernel, tf2, attr,
                   bufFlags, mode, dsb, pb, tf, cs, dev, twice>>

\* _compute_buf_flags: POSITION, and the flag of each attribute that is
\* not None.
FlagOf(name) ==
    CASE name = "tangents" -> "TANGENT"
      [] name = "texcoord_0" -> "TEXCOORD_0"
      [] name = "texcoord_1" -> "TEXCOORD_1"
      [] name = "color_0" -> "COLOR_0"
      [] name = "joints_0" -> "JOINTS_0"
      [] name = "weights_0" -> "WEIGHTS_0"

ComputeBufFlags ==
    {"POSITION"} \cup (IF normals.some THEN {"NORMAL"} ELSE {})
                 \cup {FlagOf(a) : a \in {x \in Attributes : attr[x].some}}

\* The buf_flags property: computed when self._buf_flags is None, and kept.
BufFlagsRead ==
    /\ focus = "Primitive" /\ mode # NoMode
    /\ bufFlags' = (IF bufFlags.cached THEN bufFlags ELSE Cached(ComputeBufFlags))
    /\ pop' = "buf_flags" /\ parg' = <<>> /\ pexc' = "none"
    /\ pret' = <<bufFlags'.mask>>
    /\ UNCHANGED <<prim, turn, layout, focus, made, mesh, routed, kernel, tf2, attr, mode,
                   assigns, dsb, pb, tf, cs, dev, twice>>

\* The modes given: numbers as numerator/denominator.  int(value) drops
\* the fraction.
ModeInputs == {<<-1, 1>>, <<-1, 2>>, <<0, 1>>, <<4, 1>>, <<6, 1>>, <<13, 2>>, <<7, 1>>}
IntOf(r) == IF r[1] >= 0 THEN r[1] \div r[2] ELSE -((-r[1]) \div r[2])

\* The mode setter's test.
ModeAccepted(value) == ~(value < POINTS \/ value > TRIANGLE_FAN)

\* Primitive(..., mode=m): None stands for TRIANGLES; `self.mode = mode`
\* runs the setter, and an exception ends the construction.
PrimitiveInit(m) ==
    /\ focus = "Primitive" /\ mode = NoMode
    /\ pop' = "Primitive" /\ parg' = <<m>> /\ pret' = <<>>
    /\ LET value == IF m.some THEN IntOf(m.arr) ELSE TRIANGLES
       IN  IF ModeAccepted(value)
           THEN pexc' = "none" /\ mode' = value
           ELSE pexc' = "ValueError" /\ mode' = mode
    /\ UNCHANGED <<prim, turn, layout, focus, made, mesh, routed, kernel, tf2, attr, bufFlags,
                   assigns, dsb, pb, tf, cs, dev, twice>>

\* primitive.mode = m
AssignMode(m) ==
    /\ focus = "Primitive" /\ mode # NoMode
    /\ pop' = "mode" /\ parg' = <<m>> /\ pret' = <<>>
    /\ IF ModeAccepted(IntOf(m))
       THEN pexc' = "none" /\ mode' = IntOf(m)
       ELSE pexc' = "ValueError" /\ mode' = mode
    /\ UNCHANGED <<prim, turn, layout, focus, made, mesh, routed, kernel, tf2, attr, bufFlags,
                   assigns, dsb, pb, tf, cs, dev, twice>>

\* A primitive constructed, its attributes and mode assigned, its flags read.
NextAttrs ==
    \/ \E m \in {None} \cup {Some(r) : r \in ModeInputs} : PrimitiveInit(m)
    \/ \E v \in NormalInputs(Len(positions)) : AssignNormals(v)
    \/ \E a \in Attributes, v \in AttrInputs(Len(positions)) : Assign(a, v)
    \/ \E m \in ModeInputs : AssignMode(m)
    \/ BufFlagsRead

\* The constructor's attributes: none of them, or all.
AllAttrs(n) ==
    [a \in Attributes |-> Some(IF a \in {"texcoord_0", "texcoord_1"} THEN <<n, 2>> ELSE <<n, 4>>)]

InitAttrs ==
    /\ Constructed
    /\ ratio = <<1, 1>> /\ positions = PosArr(1, 1)
    /\ indices = None
    /\ ppc = [p \in Producers |-> "idle"]
    /\ PartsConstructed
    /\ focus = "Primitive" /\ pb.size = 1
    /\ kernel = Kernel("in_place", 1) /\ mesh = <<>>
    /\ attr \in {NoAttrs, AllAttrs(Len(positions))}
    /\ bufFlags = Uncached /\ mode = NoMode /\ assigns = 0

SpecAttrs == InitAttrs /\ [][NextAttrs]_vars

\* ------------------------------------------------ attributes while bound
\* One thread: a primitive constructed with or without its optional
\* attributes, bound, its attributes assigned, its positions staged and
\* synced.
\* What is assigned: None, or an array of the attribute's own shape.
LayoutInputs(a) == {None, Some(<<Len(positions), AttrSize(a)>>)}

NextLayout ==
    \/ ProducersIdle /\ AddToContext
    \/ ProducersIdle /\ SyncBegin
    \/ ProducersIdle /\ SyncUpdateVertex
    \/ ProducersIdle /\ SyncClearVertex
    \/ ProducersIdle /\ SyncCheckIndex
    \/ \E p \in DOMAIN ppc, a \in ThreadPositions :
          Alone(p) /\ UpdatePositionsStore(p, a, FALSE)
    \/ \E p \in DOMAIN ppc : Alone(p) /\ UpdatePositionsFlag(p)
    \/ \E v \in {None, Some(NormArr(Len(positions)))} :
          opc = "idle" /\ ProducersIdle /\ AssignNormals(v)
    \/ \E j \in 1..Len(Interleaved) : \E v \in LayoutInputs(Interleaved[j]) :
          opc = "idle" /\ ProducersIdle /\ Assign(Interleaved[j], v)

InitLayout ==
    /\ Constructed
    /\ ratio = <<1, 1>> /\ positions = PosArr(1, 1)
    /\ indices = None
    /\ ppc = [p \in Producers |-> "idle"]
    /\ PartsConstructed
    /\ focus = "Primitive" /\ pb.size = 1
    /\ kernel = Kernel("in_place", 1) /\ mesh = <<>>
    /\ attr \in {NoAttrs, AllAttrs(Len(positions))}
    /\ bufFlags = Uncached /\ mode = TRIANGLES /\ assigns = 0

SpecLayout == InitLayout /\ [][NextLayout]_vars

\* ------------------------------------------------ index values, one call
\* update_topology(i) as one step: the float32 conversion, the store, the
\* bounds dropped, the flag raised.
TopologyUpdated(i) ==
    /\ indices' = (IF i.some THEN Some(AsFloat32(i.arr)) ELSE None)
    /\ bnds' = None
    /\ needsI' = Set
    /\ iprev' = <<>> /\ lastOp' = "none" /\ exc' = "none"

UpdateTopologyCall(i) ==
    /\ focus = "Primitive"
    /\ ProducersIdle /\ opc = "idle"
    /\ Ends("update_topology", <<i>>, "none")
    /\ TopologyUpdated(i)
    /\ UNCHANGED <<turn, bq, bound, deleted, nonIdx, positions, normals, needsV,
                   ratio, ctx, own, vcount, icount, vkind, vprev, ppc,
                   who, dsb, pb, tf, cs, dev, twice>>

\* Index values where float32 is exact, and past 2^24, where it is not.
WideValues == {0, 16777216, 16777217, 16777219}
WideTopology == {None} \cup {Some(<<v>>) : v \in WideValues}

\* One thread: the primitive bound and synced, its indices replaced.
NextIndex ==
    \/ ProducersIdle /\ AddToContext
    \/ ProducersIdle /\ SyncBegin
    \/ ProducersIdle /\ SyncUpdateVertex
    \/ ProducersIdle /\ SyncClearVertex
    \/ ProducersIdle /\ SyncCheckIndex
    \/ ProducersIdle /\ IdxCheckNone
    \/ ProducersIdle /\ IdxReadData
    \/ ProducersIdle /\ IdxCompare
    \/ ProducersIdle /\ IdxRealloc
    \/ ProducersIdle /\ IdxSubData
    \/ ProducersIdle /\ SyncClearIndex
    \/ \E p \in DOMAIN ppc, a \in ThreadPositions :
          Alone(p) /\ UpdatePositionsStore(p, a, FALSE)
    \/ \E p \in DOMAIN ppc : Alone(p) /\ UpdatePositionsFlag(p)
    \/ \E i \in WideTopology : UpdateTopologyCall(i)

InitIndex ==
    /\ Init
    /\ ~normals.some /\ ratio \in {<<1, 1>>, <<2, 1>>} /\ positions = PosArr(1, 1)
    /\ indices \in PartsTopology

SpecIndex == InitIndex /\ [][NextIndex]_vars

\* ---------------------------------------------------------------- a mesh
\* A mesh owns a list of primitives; its update_topology(indices,
\* primitive_index) hands the indices to the primitive at that place, and
\* raises ValueError, touching no primitive, when there is none.
MaxPrims == 2

\* Primitive.update_topology on a primitive of which only the index side
\* is followed.
CellUpdateTopologyUnflagged(c, i) ==
    [c EXCEPT !.indices = IF i.some THEN Some(AsFloat32(i.arr)) ELSE None,
              !.bounds = None]

CellUpdateTopology(c, i) ==
    [c EXCEPT !.indices = IF i.some THEN Some(AsFloat32(i.arr)) ELSE None,
              !.bounds = None,
              !.needsI = Set]

InRange(k, count) == 0 <= k /\ k < count

MeshUpdateTopology(i, k) ==
    /\ focus = "Primitive"
    /\ ProducersIdle /\ opc = "idle"
    /\ pop' = "update_topology" /\ parg' = <<i, k>> /\ pret' = <<>>
    /\ routed' = ~routed
    /\ IF ~InRange(k, 1 + Len(mesh))
       THEN /\ pexc' = "ValueError"
            /\ UNCHANGED <<mesh, indices, needsI, iprev, lastOp, exc, bnds>>
       ELSE /\ pexc' = "none"
            /\ IF k = 0
               THEN TopologyUpdated(i) /\ UNCHANGED mesh
               ELSE /\ mesh' = [mesh EXCEPT ![k] = CellUpdateTopology(@, i)]
                    /\ UNCHANGED <<indices, needsI, iprev, lastOp, exc, bnds>>
    /\ UNCHANGED <<turn, bq, bound, deleted, nonIdx, positions, normals, needsV,
                   ratio, ctx, own, vcount, icount, vkind, vprev, ppc,
                   layout, focus, made, kernel, tf2, attr, bufFlags, mode, assigns, dsb, pb, tf, cs, dev, twice>>

\* The primitive's own calls, and those routed through its mesh.
NextMesh ==
    \/ focus = "Primitive" /\ CallsWith(FALSE, ThreadPositions, PartsTopology)
    \/ \E i \in PartsTopology, k \in 0..MaxPrims : MeshUpdateTopology(i, k)

\* A mesh of one primitive to MaxPrims of them, as constructed.
Cells == [indices : PartsTopology, bounds : {None}, needsI : {Absent}]
Meshes == UNION {[1..n -> Cells] : n \in 0..(MaxPrims - 1)}

InitMesh ==
    /\ Constructed
    /\ ~normals.some /\ ratio = <<1, 1>> /\ positions \in ThreadPositions
    /\ indices \in PartsTopology
    /\ ppc = [p \in Producers |-> "idle"]
    /\ PartsConstructed
    /\ focus = "Primitive" /\ pb.size = 1
    /\ kernel = Kernel("in_place", 1)
    /\ mesh \in Meshes /\ PlainPrimitive

SpecMesh ==
    /\ InitMesh
    /\ [][NextMesh]_vars

\* Objects constructed, with the shader compiling and the program linking
\* or not, used and deleted.
BuildArrays == {CsArray("float32", <<1>>)}

NextBuild ==
    \/ NextFeedback
    \/ \E o \in Outcomes : CsAddToContext(o)
    \/ \E n \in Names, d \in BuildArrays, b \in BindingPoints :
          CreateStorageBuffer(n, d, b)
    \/ Dispatch
    \/ CsDelete

InitBuild ==
    /\ Constructed
    /\ ~normals.some /\ ratio = <<1, 1>> /\ positions = PosArr(1, 1)
    /\ indices = None
    /\ ppc = [p \in Producers |-> "idle"]
    /\ PartsConstructed
    /\ focus \in {"TransformFeedback", "ComputeShader"} /\ pb.size = 1
    /\ kernel = Kernel("in_place", 1) /\ mesh = <<>> /\ PlainPrimitive

SpecBuild == InitBuild /\ [][NextBuild]_vars

\* ------------------------------------------------- calls that are refused
\* The buffers a context is let to hold.
MaxBuffers == 4

\* Each object given inputs it refuses, and inputs it takes.
NextReject ==
    \/ \E n \in Names, d \in BuildArrays, b \in BindingPoints \cup {BadBinding} :
          /\ Cardinality(DOMAIN dev.bufs) < MaxBuffers
          /\ CreateStorageBuffer(n, d, b)
    \/ \E n \in Names, d \in CsArrays : UpdateBuffer(n, d)
    \/ \E n \in Names : ReadBuffer(n)
    \/ \E d \in ByteSeqs : DsbSetData(d)
    \/ \E d \in ByteSeqs, o \in Offsets : DsbUpdateData(d, o)
    \/ \E d \in ByteSeqs, o \in Offsets : PbUpdate(d, o)
    \/ \E v \in NormalInputs(Len(positions)) : AssignNormals(v)
    \/ \E a \in Attributes, v \in AttrInputs(Len(positions)) : Assign(a, v)
    \/ \E m \in ModeInputs : AssignMode(m)

InitReject ==
    /\ Constructed
    /\ ratio = <<1, 1>> /\ positions = PosArr(1, 1)
    /\ indices = None
    /\ ppc = [p \in Producers |-> "idle"]
    /\ PartsConstructed
    /\ focus \in {"ComputeShader", "DirectStateBuffer", "PersistentBuffer", "Primitive"}
    /\ focus # "PersistentBuffer" => pb.size = 1
    /\ kernel = Kernel("in_place", 1) /\ mesh = <<>> /\ PlainPrimitive

SpecReject == InitReject /\ [][NextReject]_vars

\* A ComputeShader, its kernel run and its buffers read.
NextCompute ==
    \/ \E n \in Names, d \in CsArrays, b \in BindingPoints :
          CreateStorageBuffer(n, d, b)
    \/ \E n \in Names, d \in CsArrays : UpdateBuffer(n, d)
    \/ Dispatch
    \/ \E n \in Names : ReadBuffer(n)
    \/ CsDelete

InitCompute ==
    /\ Constructed
    /\ ~normals.some /\ ratio = <<1, 1>> /\ positions = PosArr(1, 1)
    /\ indices = None
    /\ ppc = [p \in Producers |-> "idle"]
    /\ PartsConstructed
    /\ focus = "ComputeShader" /\ pb.size = 1 /\ mesh = <<>> /\ PlainPrimitive

SpecCompute == InitCompute /\ [][NextCompute]_vars

\* ------------------------------------------------------------ vocabulary
\* The primitive is bound: _add_to_context has returned.
Bound == vaid # 0 /\ bound

\* The size of the interleaved vertex data, in floats, and whether the
\* per-vertex arrays can be interleaved at all.
RowsAgree == normals.some => Len(normals.arr) = Len(positions)
VertexCount == (IF normals.some THEN 6 ELSE 3) * Len(positions)

Max2(a, b) == IF a >= b THEN a ELSE b

\* The interleaved layout, element by element: vertex i takes `stride`
\* consecutive floats, its position first and its normal after it.
IsInterleaved(d, pos, nrm) ==
    LET stride == IF nrm.some THEN 6 ELSE 3
    IN  /\ nrm.some => Len(nrm.arr) = Len(pos)
        /\ Len(d) = stride * Len(pos)
        /\ \A i \in 1..Len(pos) :
              /\ \A k \in 1..3 : d[stride * (i - 1) + k] = pos[i][k]
              /\ nrm.some => \A k \in 1..3 : d[stride * (i - 1) + 3 + k] = nrm.arr[i][k]

\* The logical content of a buffer: the elements of its last write.
Logical(h, count) ==
    IF h \in DOMAIN gl /\ count <= gl[h].alloc
    THEN SubSeq(gl[h].data, 1, count) ELSE <<Garbage>>

VertexLogical == IF buffers = <<>> THEN <<Garbage>> ELSE Logical(buffers[1], vcount)
IndexLogical == Logical(elemId, icount)

\* The GPU holds the CPU's current data.
VertexCurrent == IsInterleaved(VertexLogical, positions, normals)
IndexCurrent == indices.some => IndexLogical = indices.arr

AllIdle == opc = "idle" /\ ProducersIdle

\* ------------------------------------------------------------------ C1
\* C1: once sync_gpu has returned, whatever a producer interleaved with it,
\* each staged value is either in its GPU buffer or still flagged pending.
C1_DrainAtomic ==
    (AllIdle /\ Bound /\ lastOp = "sync" /\ exc = "none") =>
        /\ needsV = Set \/ VertexCurrent
        /\ needsI = Set \/ IndexCurrent

\* ------------------------------------------------------------------ C3
\* C3: one index upload of sync_gpu works on one staged value: every read of
\* self.indices it makes returns the same index set, and it does not fail
\* because the value changed under it.
C3_OneStagedValue ==
    /\ opc = "clrI" => \A i, j \in 1..Len(rd) : rd[i] = rd[j]
    /\ ~(lastOp = "sync" /\ exc = "AttributeError")

\* ------------------------------------------------------------------ C5
\* C5: on a bound primitive each tracked capacity is at least the element
\* count of the last write issued to its buffer, whatever the reserve ratio.
C5_CapacityCoversSize ==
    Bound =>
        /\ vcap >= vcount
        /\ icap # NoneCap => icap >= icount

\* ------------------------------------------------------------------ C2
\* C2: on a bound primitive, if the producers eventually stop staging and
\* the owning thread keeps calling sync_gpu, then from some point on the GPU
\* vertex and index buffers hold the last staged positions and indices.
C2_EventualVisibility ==
    (<>[]ProducersIdle) => <>[](Bound => VertexCurrent /\ IndexCurrent)

\* ------------------------------------------------------------------ C4
\* C4: when a value B replaced a staged value A before any sync took A, the
\* next sync_gpu of the bound primitive uploads B: it does not raise, and
\* once its upload is done the GPU buffer holds B and not A.
C4_LastWriteWins ==
    /\ (opc = "clrV" /\ vprev # <<>>) =>
          /\ VertexCurrent
          /\ vprev[1] # positions => ~IsInterleaved(VertexLogical, vprev[1], normals)
    /\ (opc = "clrI" /\ iprev # <<>>) =>
          /\ IndexCurrent
          /\ (indices.some /\ iprev[1].some /\ iprev[1] # indices) =>
                 IndexLogical # iprev[1].arr
    /\ (Bound /\ lastOp = "sync" /\ exc # "none") => vprev = <<>> /\ iprev = <<>>

\* ------------------------------------------------------------------ C6
\* C6: on a bound primitive a write whose size exceeds the capacity sets the
\* capacity to the larger of the old capacity and ceil(size * r), any other
\* write leaves it alone, and no step ever lowers a capacity.
C6_CapacityHistory ==
    [][ Bound =>
        /\ (opc = "updV" /\ RowsAgree) =>
               vcap' = (IF VertexCount > vcap
                        THEN Max2(vcap, CeilSize(VertexCount, ratio)) ELSE vcap)
        /\ (opc = "idxCmp" /\ indices.some /\ Len(indices.arr) <= icap) =>
               (opc' = "idxSub" /\ icap' = icap)
        /\ (opc = "idxAlloc" /\ indices.some) =>
               icap' = Max2(icap, CeilSize(Len(indices.arr), ratio))
        /\ vcap' >= vcap
        /\ icap' >= icap ]_vars

\* ------------------------------------------------------------------ C7
\* C7: _add_to_context allocates the vertex buffer with capacity
\* ceil(n * r) for the n floats of the initial vertex data and leaves n
\* floats in it, and the same for the index buffer and the m initial indices.
C7_InitialAllocation ==
    [][ (vaid = 0 /\ vaid' # 0 /\ RowsAgree) =>
           /\ vcap' = CeilSize(VertexCount, ratio)
           /\ gl'[buffers'[1]].alloc = CeilSize(VertexCount, ratio)
           /\ vcount' = VertexCount
           /\ Len(VertexLogical') = VertexCount
           /\ indices.some =>
                 /\ elemId' # 0
                 /\ icap' = CeilSize(Len(indices.arr), ratio)
                 /\ gl'[elemId'].alloc = CeilSize(Len(indices.arr), ratio)
                 /\ icount' = Len(indices.arr)
                 /\ Len(IndexLogical') = Len(indices.arr) ]_vars

\* ------------------------------------------------------------------ C8
\* C8: when the staged data's element count is at most the buffer's
\* capacity, sync_gpu writes exactly that many elements from offset 0 with
\* glBufferSubData and nothing else: no reallocation, the capacity and the
\* store's size stay, the elements past the count stay, no other buffer
\* changes.
C8_InPlaceWrite ==
    [][ /\ (opc = "updV" /\ RowsAgree /\ vcap # NoneCap /\ VertexCount <= vcap) =>
            LET vb == buffers[1] IN
            /\ opc' = "clrV" /\ vkind' = "sub"
            /\ vcap' = vcap /\ vcount' = VertexCount
            /\ DOMAIN gl' = DOMAIN gl
            /\ gl'[vb].alloc = gl[vb].alloc
            /\ IsInterleaved(SubSeq(gl'[vb].data, 1, VertexCount), positions, normals)
            /\ \A k \in (VertexCount + 1)..gl[vb].alloc : gl'[vb].data[k] = gl[vb].data[k]
            /\ \A h \in DOMAIN gl \ {vb} : gl'[h] = gl[h]
        /\ (opc = "idxCmp" /\ indices.some /\ icap # NoneCap
                /\ Len(indices.arr) <= icap) =>
            (opc' = "idxSub" /\ UNCHANGED ctx)
        /\ (opc = "idxSub" /\ indices.some) =>
            LET m == Len(indices.arr) IN
            /\ opc' = "clrI"
            /\ icap' = icap /\ icount' = m
            /\ DOMAIN gl' = DOMAIN gl
            /\ gl'[elemId].alloc = gl[elemId].alloc
            /\ SubSeq(gl'[elemId].data, 1, m) = indices.arr
            /\ \A k \in (m + 1)..gl[elemId].alloc : gl'[elemId].data[k] = gl[elemId].data[k]
            /\ \A h \in DOMAIN gl \ {elemId} : gl'[h] = gl[h] ]_vars

\* With reserve ratio 2 and one initial index, a sync has just written a
\* grown set of two indices into the buffer of capacity two.
C8_Witness ==
    /\ Bound /\ ratio = <<2, 1>> /\ opc = "clrI"
    /\ icap = 2 /\ icount = 2 /\ IndexLogical = IdxArr(2)

\* ------------------------------------------------------------------ C9
\* C9: when the staged data's element count exceeds the capacity of a bound
\* primitive's buffer, sync_gpu reallocates the buffer to ceil(count * r) elements, keeps
\* nothing of the old store, and leaves exactly the new data in it.
C9_Reallocation ==
    [][ Bound =>
        /\ (opc = "updV" /\ RowsAgree /\ vcap # NoneCap /\ VertexCount > vcap) =>
            LET vb == buffers[1] IN
            /\ opc' = "clrV" /\ vkind' = "realloc"
            /\ vcap' = CeilSize(VertexCount, ratio)
            /\ gl'[vb].alloc = CeilSize(VertexCount, ratio)
            /\ vcount' = VertexCount
            /\ IsInterleaved(VertexLogical', positions, normals)
            /\ \A k \in (VertexCount + 1)..gl'[vb].alloc : gl'[vb].data[k] = Undef
        /\ (opc = "idxCmp" /\ indices.some /\ icap # NoneCap
                /\ Len(indices.arr) > icap) =>
            opc' = "idxAlloc"
        /\ (opc = "idxAlloc" /\ indices.some) =>
            /\ icap' = CeilSize(Len(indices.arr), ratio)
            /\ gl'[elemId].alloc = CeilSize(Len(indices.arr), ratio)
            /\ \A k \in 1..gl'[elemId].alloc : gl'[elemId].data[k] = Undef
        /\ (opc = "idxSubNew" /\ indices.some) =>
            /\ opc' = "clrI"
            /\ icount' = Len(indices.arr)
            /\ IndexLogical' = indices.arr ]_vars

\* ----------------------------------------------------------------- C10
\* C10: when sync_gpu returns on a bound primitive and no update call has
\* started since, no vertex or index update is pending, the vertex buffer
\* holds the interleaving of the CPU attributes and the index buffer holds
\* the CPU indices.
C10_SyncDrains ==
    (Bound /\ AllIdle /\ lastOp = "sync" /\ exc = "none") =>
        /\ needsV # Set /\ needsI # Set
        /\ VertexCurrent
        /\ IndexCurrent

\* A sync has returned after uploading both a staged position array, next to
\* normals, and a staged index set.
C10_Witness ==
    /\ Bound /\ AllIdle /\ lastOp = "sync" /\ exc = "none"
    /\ needsV = Clear /\ needsI = Clear
    /\ normals.some /\ positions = PosArr(1, 2)
    /\ indices.some /\ Len(indices.arr) = 2

\* ----------------------------------------------------------------- C11
\* C11: a step of update_positions or update_topology, by any thread and in
\* any state, leaves every GPU handle, capacity and buffer content as it
\* was and the call empties the cached bounding box; and when no update and
\* no bounds query is under way, a cached box is the box of the current
\* positions, so that the next query answers for the current positions.
C11_UpdatesStayOnCpu ==
    [][ /\ ppc' # ppc => UNCHANGED ctx
        /\ (\E p \in DOMAIN ppc : ppc[p] = "idle" /\ ppc'[p] # "idle") =>
               bnds' = None
        /\ (ProducersIdle' /\ bq' = <<>> /\ bnds'.some) =>
               bnds'.arr = ComputeBounds(positions') ]_vars

\* ----------------------------------------------------------------- C12
\* C12: the position cell and the index cell are independent.  A step of
\* update_positions leaves the CPU indices and the index flag alone, the
\* vertex upload of sync_gpu leaves the index buffer and its capacity alone,
\* and a sync with no index staged does not enter the index upload; the same
\* with positions and indices exchanged.
PositionStep ==
    \E p \in DOMAIN ppc : {ppc[p], ppc'[p]} = {"idle", "up_flag"}
TopologyStep ==
    \E p \in DOMAIN ppc : {ppc[p], ppc'[p]} = {"idle", "ut_flag"}

C12_CellsIndependent ==
    [][ /\ PositionStep => UNCHANGED <<indices, needsI, ctx>>
        /\ TopologyStep => UNCHANGED <<positions, normals, needsV, ctx>>
        /\ opc \in {"updV", "clrV"} =>
              /\ UNCHANGED <<indices, needsI, elemId, icap, icount>>
              /\ elemId # 0 => gl'[elemId] = gl[elemId]
        /\ (opc = "chkI" /\ needsI # Set) => (opc' = "idle" /\ UNCHANGED ctx)
        /\ opc \in {"idxNone", "idxData", "idxCmp", "idxAlloc", "idxSub",
                    "idxSubNew", "clrI"} =>
              /\ UNCHANGED <<positions, normals, needsV, vcap, vcount>>
              /\ gl'[buffers[1]] = gl[buffers[1]]
        /\ (opc = "idle" /\ opc' # "idle" /\ needsV # Set) => opc' = "chkI"
      ]_vars

\* A sync has returned on a bound, indexed primitive after uploading staged
\* positions, no index set ever having been staged.
C12_Witness ==
    /\ Bound /\ AllIdle /\ lastOp = "sync" /\ exc = "none"
    /\ needsV = Clear /\ needsI = Absent
    /\ elemId # 0 /\ indices.some /\ Len(indices.arr) = 2
    /\ positions = PosArr(1, 2)

\* ----------------------------------------------------------------- C13
\* C13: after update_topology(None) and a sync the primitive is non-indexed
\* with nothing pending and its element buffer still allocated with its
\* capacity; the sync after a later update_topology(indices), no positions
\* being staged, does not raise and leaves the new index set in that same
\* buffer.
C13_NoneKeepsBuffer ==
    /\ (nonIdx # 0 /\ AllIdle /\ lastOp = "sync" /\ exc = "none" /\ ~indices.some) =>
          /\ needsI = Clear
          /\ elemId = nonIdx
          /\ \E k \in 1..Len(buffers) : buffers[k] = nonIdx
          /\ icap # NoneCap /\ gl[nonIdx].alloc = icap
    /\ (nonIdx # 0 /\ opc = "clrI" /\ indices.some) =>
          /\ elemId = nonIdx
          /\ IndexLogical = indices.arr
    /\ ~(nonIdx # 0 /\ Bound /\ lastOp = "sync" /\ exc # "none"
            /\ indices.some /\ needsV # Set)

\* ----------------------------------------------------------------- C14
\* C14: in every state the normals, when present, have as many rows as the
\* positions, and sync_gpu never is the first to find a mismatch (it never
\* raises the ValueError of np.hstack).
C14_RowCountsAgree ==
    /\ normals.some => Len(normals.arr) = Len(positions)
    /\ ~(lastOp = "sync" /\ exc = "ValueError")

\* ----------------------------------------------------------------- C15
\* C15: when delete() has returned the primitive holds no device handle
\* (no vertex array, an empty buffer list, none of its buffers alive), and
\* no sync_gpu called after it with an update pending returns normally.
C15_DeletedFails ==
    /\ (deleted /\ lastOp = "delete") =>
            (vaid = 0 /\ buffers = <<>> /\ (dels["Primitive"] = 1 => DOMAIN gl = {}))
    /\ ~(deleted /\ vcap # NoneCap /\ lastOp = "sync" /\ opc = "idle" /\ exc = "none"
            /\ (needsV = Set \/ needsI = Set))

\* ----------------------------------------------------------------- C16
\* C16: no delete() hands GL a name that is not alive, and a delete()
\* called on an object that is already deleted raises nothing and leaves
\* the object and the context's objects as they were; a ComputeShader is
\* after every delete() what it was after the first (no program, no
\* registered buffer).
Deleting(c) == dels'[c] = dels[c] + 1

C16_DeleteIdempotent ==
    [][ /\ (\E c \in Components : Deleting(c)) => twice' = twice
        /\ (Deleting("Primitive") /\ deleted) =>
              (exc' = "none" /\ deleted' /\ UNCHANGED <<cpu, ctx, box>>)
        /\ (Deleting("DirectStateBuffer") /\ dsb.id = 0) =>
              (pexc' = "none" /\ UNCHANGED <<dsb, dev>>)
        /\ (Deleting("PersistentBuffer") /\ pb.id = 0) =>
              (pexc' = "none" /\ UNCHANGED <<pb, dev>>)
        /\ (Deleting("TransformFeedback") /\ tf.id = 0) =>
              (pexc' = "none" /\ UNCHANGED <<tf, dev>>)
        /\ Deleting("ComputeShader") =>
              (pexc' = "none" /\ cs' = [program_id |-> 0, ssbo_map |-> <<>>])
        /\ (Deleting("ComputeShader") /\ cs.program_id = 0 /\ Registered = {}) =>
              UNCHANGED <<cs, dev>>
      ]_vars

C16_Witness ==
    /\ redel = {"PersistentBuffer"} /\ dels["PersistentBuffer"] = 2
    /\ pop = "delete" /\ pexc = "none"
    /\ pb.id = 0 /\ pb.size = MaxBytes /\ ~twice

\* ----------------------------------------------------------------- C17
\* C17: PersistentBuffer.update(data, offset) on a mapped buffer raises
\* ValueError and changes no byte when offset + nbytes > size; when
\* offset + nbytes <= size it returns and the bytes of the mapping from
\* offset on are those of data.
C17_BoundsChecked ==
    [][ (pop' = "update" /\ pb.array.some) =>
            LET data == parg'[1]
                offset == parg'[2]
            IN  IF offset + Len(data) > pb.size
                THEN pexc' = "ValueError" /\ pb' = pb
                ELSE /\ pexc' = "none"
                     /\ \A i \in 1..Len(data) :
                          /\ offset + i \in 1..pb.size
                          /\ (pb'.array.arr[offset + i] + 256) % 256 = data[i]
      ]_vars

\* ----------------------------------------------------------------- C18
\* C18: the byte size of a PersistentBuffer never changes and its store is
\* never allocated anew; delete() unmaps it and releases its name, and an
\* update() called after that raises and changes nothing.
C18_FixedSize ==
    [][ /\ pb'.size = pb.size
        /\ (pb.id # 0 /\ pb'.id # 0) =>
              (pb'.id = pb.id /\ dev'.bufs[pb.id].alloc = pb.size)
        /\ (Deleting("PersistentBuffer") /\ pb.id # 0) =>
              (pb'.id = 0 /\ ~pb'.mapped_data /\ pb.id \notin DOMAIN dev'.bufs)
        /\ (pop' = "update" /\ pb.id = 0) => (pexc' # "none" /\ pb' = pb)
      ]_vars

C18_Witness ==
    /\ pop = "update" /\ pexc = "TypeError" /\ parg = <<<<1, 200>>, 0>>
    /\ pb.id = 0 /\ pb.size = MaxBytes /\ dels["PersistentBuffer"] = 1

\* ----------------------------------------------------------------- C19
\* C19: no two registered storage buffers of a ComputeShader have the same
\* binding point, and a create_storage_buffer that returned did not name a
\* binding point in use.
C19_UniqueBindings ==
    \A m, n \in Registered :
        m # n => cs.ssbo_map[m].binding # cs.ssbo_map[n].binding

\* ----------------------------------------------------------------- C20
\* C20: update_buffer(name, data) raises ValueError and writes nothing when
\* name is not registered or data's element type or shape is not the
\* registered one; otherwise it returns and the buffer holds data, all of
\* it; and a registered entry keeps its element type and shape.
SameContract(name, data) ==
    /\ name \in DOMAIN cs.ssbo_map
    /\ data.dtype = cs.ssbo_map[name].dtype
    /\ Len(data.vals) = cs.ssbo_map[name].shape[1]

C20_UpdateChecked ==
    [][ /\ pop' = "update_buffer" =>
              LET name == parg'[1]
                  data == parg'[2]
              IN  IF SameContract(name, data)
                  THEN /\ pexc' = "none"
                       /\ dev'.bufs[cs.ssbo_map[name].ssbo].data = data.vals
                       /\ cs' = cs
                  ELSE pexc' = "ValueError" /\ dev' = dev /\ cs' = cs
        /\ \A n \in DOMAIN cs.ssbo_map \cap DOMAIN cs'.ssbo_map :
              /\ cs'.ssbo_map[n].dtype = cs.ssbo_map[n].dtype
              /\ cs'.ssbo_map[n].shape = cs.ssbo_map[n].shape
      ]_vars

C20_Witness ==
    /\ pop = "update_buffer" /\ pexc = "none"
    /\ parg = <<"a", CsArray("float32", <<2>>)>>
    /\ "b" \in Registered
    /\ dev.bufs[cs.ssbo_map["a"].ssbo].data = <<2>>
    /\ dels["ComputeShader"] = 0

\* ------------------------------------------------- kernels run, buffers read

\* The content written last to the buffer registered under name, by
\* create_storage_buffer, update_buffer or a kernel run.
LastWritten(name) ==
    LET h == cs.ssbo_map[name].ssbo
    IN  IF h \in DOMAIN dev.incoh THEN dev.incoh[h] ELSE dev.bufs[h].data

\* C21: a read_buffer that returns gives an array of the registered element
\* type and shape holding the content written last to the buffer by
\* create_storage_buffer, update_buffer or dispatch; so floats doubled in
\* place, or from one buffer into another, are read back doubled.
C21_RoundTrip ==
    [][ pop' = "read_buffer" /\ pexc' = "none" =>
           LET name == parg'[1]
           IN  pret' = [dtype |-> cs.ssbo_map[name].dtype,
                        shape |-> cs.ssbo_map[name].shape,
                        vals  |-> LastWritten(name)]
      ]_vars

\* C22: when dispatch has returned, the kernel has run and no write of it is
\* still hidden from the API's reads: what a mapping of a buffer shows is
\* what the kernel left in it.
C22_WritesVisible ==
    pop = "dispatch" /\ pexc = "none" =>
        \A h \in DOMAIN dev.bufs :
            h \in DOMAIN dev.incoh => dev.bufs[h].data = dev.incoh[h]

\* ------------------------------------------------- captures begun and ended

\* The TransformFeedback object an attach_buffer call was made on, and the
\* (buffer, binding_point) pair it was given.
AttachedTo(arg) == IF Len(arg) = 2 THEN 1 ELSE 2
AttachedPair(arg) == IF Len(arg) = 2 THEN arg ELSE <<arg[2], arg[3]>>
Targets(i) == IF i = 1 THEN tf.buffers ELSE tf2.buffers
TargetsAfter(i) == IF i = 1 THEN tf'.buffers ELSE tf2'.buffers

\* C23: while no capture is active, every attach_buffer on a live
\* TransformFeedback returns and puts its (buffer, binding_point) pair at
\* the end of the object's list, after the pairs of the calls before it;
\* while a capture is active, attach_buffer raises and neither the list nor
\* the buffers bound to the feedback objects' binding points change.
C23_AttachBeforeBegin ==
    [][ pop' = "attach_buffer" =>
           LET i == AttachedTo(parg')
           IN  /\ ~dev.xfb.active /\ Feedback(i).id # 0 =>
                      /\ pexc' = "none"
                      /\ TargetsAfter(i) = Targets(i) \o <<AttachedPair(parg')>>
               /\ dev.xfb.active =>
                      /\ pexc' # "none"
                      /\ TargetsAfter(1) = Targets(1) /\ TargetsAfter(2) = Targets(2)
                      /\ dev'.points = dev.points
      ]_vars

C23_Witness ==
    /\ pop = "attach_buffer" /\ parg = <<"pb", 1>> /\ pexc = "GLError"
    /\ dev.xfb.active /\ dev.xfb.bound = tf.id
    /\ tf.buffers = <<<<"dsb", 0>>>>

\* C24: a context has at most one capture active: a begin made while a
\* capture is active, the object's own or another's, raises and leaves
\* the active capture as it was; a begin that returns was made with none
\* active and leaves the capture of its own feedback object active.
C24_OneSession ==
    [][ pop' = "begin" =>
           /\ dev.xfb.active => pexc' # "none" /\ dev'.xfb = dev.xfb
           /\ pexc' = "none" =>
                 /\ ~dev.xfb.active
                 /\ dev'.xfb = [bound |-> Feedback(parg'[1]).id, active |-> TRUE]
      ]_vars

C24_Witness ==
    /\ pop = "begin" /\ parg = <<2>> /\ pexc = "GLError"
    /\ dev.xfb.active /\ dev.xfb.bound = tf.id /\ tf.id # 0
    /\ made = "ok" /\ Len(tf2.buffers) > 0

\* ------------------------------------------------------ failed constructions

\* C25: when the shader does not compile or the program does not link,
\* the construction of a TransformFeedback or of a ComputeShader ends with
\* ValueError, whose message holds the info log, and the program handle the
\* object then holds, if any, is not that of a live program.
C25_FailedBuild ==
    parg \in {<<"compile">>, <<"link">>} =>
        /\ pexc = "ValueError"
        /\ pop = "TransformFeedback" => tf2.program \notin dev.progs
        /\ pop = "_add_to_context" => cs.program_id \notin dev.progs

\* ------------------------------------------------------ routed through a mesh

\* What a mesh's primitive k holds of indices and pending flag, the first
\* being primitive 0; and the element buffers of the one that has them.
Routed(k) == IF k = 0 THEN <<indices, needsI>> ELSE <<mesh[k].indices, mesh[k].needsI>>
RoutedAfter(k) == IF k = 0 THEN <<indices', needsI'>> ELSE <<mesh'[k].indices, mesh'[k].needsI>>
Asked(i) == IF i.some THEN Some(AsFloat32(i.arr)) ELSE None

\* A step that is a call made through the mesh.
RoutedCall == routed' # routed

\* C26: update_topology routed through a mesh with a primitive_index that
\* is not below the number of its primitives raises ValueError and leaves
\* the indices, the pending flags and the buffers of every primitive as
\* they were; with an index in range the primitive at that place takes
\* the indices and its flag is raised, and no other primitive changes.
C26_RoutedOrRejected ==
    [][ RoutedCall =>
           LET i == parg'[1]
               k == parg'[2]
               count == 1 + Len(mesh)
           IN  /\ Len(mesh') = Len(mesh)
               /\ gl' = gl /\ buffers' = buffers /\ elemId' = elemId
               /\ IF k >= count
                  THEN /\ pexc' = "ValueError"
                       /\ \A j \in 0..(count - 1) : RoutedAfter(j) = Routed(j)
                  ELSE /\ pexc' = "none"
                       /\ RoutedAfter(k) = <<Asked(i), Set>>
                       /\ \A j \in 0..(count - 1) \ {k} : RoutedAfter(j) = Routed(j)
      ]_vars

C26_Witness ==
    /\ pop = "update_topology" /\ pexc = "ValueError"
    /\ Len(mesh) = 1 /\ parg[2] = 2 /\ parg[1].some
    /\ mesh[1].needsI = Set /\ mesh[1].indices = None
    /\ needsI = Clear /\ elemId # 0

\* ------------------------------------------------------- flags and modes

\* The flags of the attributes the primitive holds at present.
PresentFlags ==
    {"POSITION"}
      \cup (IF normals.some THEN {"NORMAL"} ELSE {})
      \cup (IF attr["tangents"].some THEN {"TANGENT"} ELSE {})
      \cup (IF attr["texcoord_0"].some THEN {"TEXCOORD_0"} ELSE {})
      \cup (IF attr["texcoord_1"].some THEN {"TEXCOORD_1"} ELSE {})
      \cup (IF attr["color_0"].some THEN {"COLOR_0"} ELSE {})
      \cup (IF attr["joints_0"].some THEN {"JOINTS_0"} ELSE {})
      \cup (IF attr["weights_0"].some THEN {"WEIGHTS_0"} ELSE {})

\* What buf_flags returns when read now.
BufFlagsNow == IF bufFlags.cached THEN bufFlags.mask ELSE ComputeBufFlags

\* C28: at any time in a primitive's life, the mask buf_flags returns has
\* POSITION, and each other flag exactly when its attribute is not None
\* at that time, whatever was assigned or cleared since the first read.
C28_FlagsCurrent == mode # NoMode => BufFlagsNow = PresentFlags

\* The number given as a mode lies outside [POINTS .. TRIANGLE_FAN].
OutsideModes(r) == r[1] < POINTS * r[2] \/ r[1] > TRIANGLE_FAN * r[2]

\* C30: the mode of a primitive is an integer from POINTS to TRIANGLE_FAN;
\* a constructor or an assignment given a mode outside that range raises,
\* and the assignment that raises leaves the mode as it was.
C30_ModeInRange ==
    /\ [](mode # NoMode => mode \in POINTS..TRIANGLE_FAN)
    /\ [][ pop' \in {"Primitive", "mode"} =>
              /\ (pop' = "Primitive" /\ parg'[1].some /\ OutsideModes(parg'[1].arr))
                    => pexc' # "none" /\ mode' = NoMode
              /\ (pop' = "mode" /\ OutsideModes(parg'[1]))
                    => pexc' # "none" /\ mode' = mode
              /\ pexc' # "none" => mode' = mode
       ]_vars

\* ---------------------------------------------------------- index values

\* C29: the index values given last to update_topology, each in
\* [0, 2^32), are what Primitive.indices holds, and what the element
\* buffer holds as unsigned integers once a sync has taken them.
C29_IndexExact ==
    (pop = "update_topology" /\ parg[1].some) =>
        /\ indices = Some(parg[1].arr)
        /\ (AllIdle /\ Bound /\ needsI = Clear /\ exc = "none")
              => IndexLogical = parg[1].arr

\* ------------------------------------------------------------ refused calls

\* The calls the claim names, as the model records them.
Refusable ==
    {"create_storage_buffer", "update_buffer", "read_buffer", "update",
     "update_data", "normals", "mode"} \cup Attributes

\* The call made last, made again with an input the object takes, would
\* return: a name not in use at a binding point the context has, the
\* registered name with an array of the registered type and shape, bytes
\* that fit, an array of the attribute's shape, a mode of GLTF.
Retried ==
    CASE pop = "create_storage_buffer" ->
           ENABLED (CreateStorageBuffer("fresh", parg[2], 0) /\ pexc' = "none")
      [] pop = "update_buffer" ->
           Registered # {} =>
              ENABLED (\E n \in Registered :
                          /\ UpdateBuffer(n, [dtype |-> cs.ssbo_map[n].dtype,
                                              shape |-> cs.ssbo_map[n].shape,
                                              vals |-> [i \in 1..cs.ssbo_map[n].shape[1] |-> 1]])
                          /\ pexc' = "none")
      [] pop = "read_buffer" ->
           Registered # {} =>
              ENABLED (\E n \in Registered : ReadBuffer(n) /\ pexc' = "none")
      [] pop = "update" -> ENABLED (PbUpdate(<<1>>, 0) /\ pexc' = "none")
      [] pop = "update_data" ->
           dsb.size > 0 => ENABLED (DsbUpdateData(<<1>>, 0) /\ pexc' = "none")
      [] pop = "normals" ->
           assigns < MaxAssign =>
              ENABLED (AssignNormals(Some(NormArr(Len(positions)))) /\ pexc' = "none")
      [] pop = "mode" -> ENABLED (AssignMode(<<TRIANGLES, 1>>) /\ pexc' = "none")
      [] pop \in Attributes ->
           assigns < MaxAssign =>
              ENABLED (Assign(pop, Some(<<Len(positions), IF pop \in {"texcoord_0", "texcoord_1"}
                                                          THEN 2 ELSE 4>>))
                       /\ pexc' = "none")
      [] OTHER -> TRUE

\* C27: a call that raises, of create_storage_buffer, update_buffer,
\* read_buffer, PersistentBuffer.update, DirectStateBuffer.update_data, or
\* an assignment to an attribute or to the mode of a primitive, leaves
\* every field of every object and the content of every buffer of the
\* context as it was before the call; and the call made again with an
\* input the object takes then returns.
C27_RefusedUnchanged ==
    /\ [][ (pexc' # "none" /\ pop' \in Refusable) =>
              /\ cs' = cs /\ dsb' = dsb /\ pb' = pb
              /\ dev'.bufs = dev.bufs /\ dev'.incoh = dev.incoh
              /\ positions' = positions /\ normals' = normals /\ indices' = indices
              /\ attr' = attr /\ mode' = mode /\ bufFlags' = bufFlags
       ]_vars
    /\ []((pexc # "none" /\ pop \in Refusable) => Retried)

\* ----------------------------------------------------------------- C31
\* The steps of sync_gpu's index upload.
IndexSteps == {"idxNone", "idxData", "idxCmp", "idxAlloc", "idxSub", "idxSubNew", "clrI"}

\* An empty index array is staged: update_topology got a zero-length array.
EmptyStaged == indices.some /\ Len(indices.arr) = 0

FixedOrder == <<"positions", "normals", "tangents", "texcoord_0", "texcoord_1", "color_0">>
Width(name) ==
    IF name \in {"positions", "normals"} THEN 3
    ELSE IF name \in {"tangents", "color_0"} THEN 4 ELSE 2

\* Whether an attribute is present, and its element of vertex i.
Present(name) ==
    IF name = "positions" THEN TRUE
    ELSE IF name = "normals" THEN normals.some ELSE attr[name].some
ElementOf(name, i, k) ==
    IF name = "positions" THEN positions[i][k]
    ELSE IF name = "normals" THEN normals.arr[i][k] ELSE AttrElem(name, i, k)

\* The stride, in floats, and the offset of an attribute in a vertex: the
\* sum of the widths of the present attributes, and of those before it.
PresentBefore(j) == {x \in 1..(j - 1) : Present(FixedOrder[x])}
RECURSIVE SumWidths(_)
SumWidths(js) ==
    IF js = {} THEN 0
    ELSE LET x == CHOOSE y \in js : TRUE
         IN  Width(FixedOrder[x]) + SumWidths(js \ {x})
StrideNow == SumWidths(PresentBefore(Len(FixedOrder) + 1))
OffsetNow(j) == SumWidths(PresentBefore(j))

\* The vertex buffer's logical content is the interleaving of the present
\* attributes.
UploadedInterleaved ==
    /\ Len(VertexLogical) = StrideNow * Len(positions)
    /\ \A i \in 1..Len(positions), j \in 1..Len(FixedOrder) :
          Present(FixedOrder[j]) =>
             \A k \in 1..Width(FixedOrder[j]) :
                VertexLogical[StrideNow * (i - 1) + OffsetNow(j) + k]
                    = ElementOf(FixedOrder[j], i, k)

\* The attribute pointers are those of the present attributes, one location
\* each in the fixed order, with the byte stride and byte offsets.
PointersOfPresent ==
    LET js == PresentBefore(Len(FixedOrder) + 1)
    IN  /\ Len(layout) = Cardinality(js)
        /\ \A j \in js :
              LET p == layout[Cardinality(PresentBefore(j)) + 1]
              IN  /\ p.name = FixedOrder[j]
                  /\ p.size = Width(FixedOrder[j])
                  /\ p.stride = 4 * StrideNow
                  /\ p.offset = 4 * OffsetNow(j)

\* C32: when _add_to_context returns, and whenever sync_gpu has uploaded the
\* vertex data, the vertex buffer holds, vertex after vertex, the present
\* attributes in the order position(3), normal(3), tangent(4),
\* texcoord_0(2), texcoord_1(2), color_0(4); and the attribute pointers
\* _add_to_context sets have the stride 4 * (sum of the present widths) and
\* the offsets 4 * (sum of the widths before).
C32_Interleaved ==
    [][ /\ (vaid = 0 /\ vaid' # 0 /\ exc' = "none") =>
              (UploadedInterleaved' /\ PointersOfPresent')
        /\ (opc = "updV" /\ opc' = "clrV") => UploadedInterleaved'
      ]_vars

\* A sync has uploaded staged positions next to normals and all four other
\* attributes: 18 floats a vertex.
C32_Witness ==
    /\ Bound /\ opc = "clrV" /\ normals.some
    /\ \A j \in 1..Len(Interleaved) : attr[Interleaved[j]].some
    /\ positions = PosArr(1, 2) /\ vcount = 18

\* ----------------------------------------------------------------- C37
\* C37: whenever sync_gpu has uploaded the vertex data of a bound
\* primitive, the attribute pointers set at bind time are those of the
\* data just uploaded: the same attributes in the same order, its stride,
\* its offsets.
C37_LayoutKept ==
    [][ (Bound /\ opc = "updV" /\ opc' = "clrV") => PointersOfPresent' ]_vars

\* ----------------------------------------------------------------- C33
\* delete() of the object the calls are made on has returned.
DeleteReturned(c) ==
    /\ focus = c
    /\ IF c = "Primitive" THEN lastOp = "delete" /\ exc = "none"
                          ELSE pop = "delete" /\ pexc = "none"

\* C33: when delete() has returned the object holds no device handle.  A
\* Primitive has no vertex array id, an empty buffer list and no field
\* naming a live buffer; a PersistentBuffer has no id, no mapping and no
\* view of it; a TransformFeedback has no id, no attached target and no
\* field naming a live program; a ComputeShader has no program id and an
\* empty registry, every buffer it registered is gone from the context and
\* none was handed to glDeleteBuffers when not alive.
C33_NoHandleAfterDelete ==
    /\ DeleteReturned("Primitive") =>
          /\ vaid = 0 /\ buffers = <<>>
          /\ elemId \notin DOMAIN gl
    /\ DeleteReturned("PersistentBuffer") =>
          /\ pb.id = 0 /\ ~pb.mapped_data /\ ~pb.array.some
          /\ 2 \notin DOMAIN dev.bufs
    /\ DeleteReturned("TransformFeedback") =>
          /\ tf.id = 0 /\ tf.buffers = <<>>
          /\ tf.program \notin dev.progs
    /\ DeleteReturned("ComputeShader") =>
          /\ cs.program_id = 0 /\ cs.ssbo_map = <<>>
          /\ DOMAIN dev.bufs \subseteq {1, 2}
          /\ ~twice

\* ----------------------------------------------------------------- C34
\* C34: while sync_gpu, on a primitive with a vertex array, is at the
\* capacity test or at a write of the index upload, the element buffer it
\* has bound is alive and in the primitive's buffer list, and the
\* capacity it compares with is the size of that buffer's store.
C34_LiveElementBuffer ==
    (vaid # 0 /\ opc \in {"idxCmp", "idxAlloc", "idxSub", "idxSubNew"}) =>
        /\ elemId \in DOMAIN gl
        /\ \E k \in 1..Len(buffers) : buffers[k] = elemId
        /\ (opc = "idxCmp" /\ icap # NoneCap) => gl[elemId].alloc = icap

\* ----------------------------------------------------------------- C35
\* C35: a PersistentBuffer.update(data, offset) or a
\* DirectStateBuffer.update_data(data, offset) that returns leaves in the
\* buffer the bytes of data at the places offset .. offset + data.nbytes - 1
\* (counted from 0) and every other byte as it was, whatever the sign of
\* the offset; update_data changes no other buffer.
C35_ExactRange ==
    [][ /\ (pop' = "update" /\ pexc' = "none" /\ pb.array.some) =>
              LET data == parg'[1]
                  offset == parg'[2]
              IN  /\ pb'.array.some
                  /\ \A i \in 1..pb.size :
                        IF offset < i /\ i <= offset + Len(data)
                        THEN (pb'.array.arr[i] + 256) % 256 = data[i - offset]
                        ELSE pb'.array.arr[i] = pb.array.arr[i]
        /\ (pop' = "update_data" /\ pexc' = "none" /\ dsb.id # 0) =>
              LET data == parg'[1]
                  offset == parg'[2]
              IN  /\ DOMAIN dev'.bufs = DOMAIN dev.bufs
                  /\ \A h \in DOMAIN dev.bufs \ {dsb.id} : dev'.bufs[h] = dev.bufs[h]
                  /\ dev'.bufs[dsb.id].alloc = dev.bufs[dsb.id].alloc
                  /\ \A i \in 1..dev.bufs[dsb.id].alloc :
                        IF offset < i /\ i <= offset + Len(data)
                        THEN dev'.bufs[dsb.id].data[i] = data[i - offset]
                        ELSE dev'.bufs[dsb.id].data[i] = dev.bufs[dsb.id].data[i]
      ]_vars

\* ----------------------------------------------------------------- C36
\* C36: no program that a ComputeShader created is handed to
\* glDeleteProgram a second time: whenever delete() runs with a program id
\* set, that program is alive, a failed link before it or not.
C36_ProgramDeletedOnce ==
    [][ (focus = "ComputeShader" /\ Deleting("ComputeShader") /\ cs.program_id # 0) =>
            (cs.program_id \in dev.progs /\ twice' = twice) ]_vars

\* ----------------------------------------------------------------- C38
\* C38: while the primitive has no vertex array (never bound, or deleted),
\* no step, of sync_gpu or of an update call, changes a buffer, a handle or
\* a capacity or clears a pending flag, and sync_gpu returns at once,
\* raising nothing; and when _add_to_context then returns, the vertex
\* buffer holds the positions staged last and the element buffer, live and
\* in the buffer list, the indices staged last.
C38_StagedUnboundKept ==
    [][ /\ (vaid = 0 /\ vaid' = 0 /\ ~Deleting("Primitive")) =>
              /\ UNCHANGED <<gl, buffers, elemId, vcap, icap>>
              /\ needsV = Set => needsV' = Set
              /\ needsI = Set => needsI' = Set
              /\ opc' = "idle"
              /\ lastOp' = "sync" => exc' = "none"
        /\ (vaid = 0 /\ vaid' # 0 /\ bound') =>
              /\ VertexCurrent' /\ IndexCurrent'
              /\ indices.some =>
                    /\ elemId' \in DOMAIN gl'
                    /\ \E k \in 1..Len(buffers') : buffers'[k] = elemId'
              /\ UNCHANGED <<positions, indices, needsV, needsI>>
      ]_vars

\* A primitive was bound and deleted, positions and indices were staged on
\* it, and it has just been bound again.
C38_Witness ==
    /\ Bound /\ AllIdle /\ lastOp = "bind" /\ exc = "none"
    /\ dels["Primitive"] = 1
    /\ needsV = Set /\ needsI = Set
    /\ positions = PosArr(1, 2)
    /\ indices.some /\ Len(indices.arr) = 1 /\ IndexLogical = indices.arr

\* ----------------------------------------------------------------- C39
\* C39: when the constructor of a TransformFeedback has raised, the
\* feedback object and the program it created are alive no more; and when
\* delete() has returned, neither are those of the object deleted.
C39_HandlesReleased ==
    /\ made = "failed" =>
          /\ tf2.id \notin dev.tfos
          /\ tf2.program \notin dev.progs
    /\ (focus = "TransformFeedback" /\ pop = "delete" /\ pexc = "none") =>
          /\ tf.id = 0
          /\ 1 \notin dev.tfos
          /\ tf.program \notin dev.progs

====
